---- MODULE Spec2Model ----
(***************************************************************************)
(* A model of the messageformat repository:                                *)
(*   - parsePlaceholder (mf2-messageformat/src/parser/placeholder.ts),     *)
(*     a step machine over one source text (specification SpecParse);      *)
(*   - addMeta, the metadata merge of a formatted part (SpecMeta);         *)
(*   - formatToParts and the resolvers it calls (format-message.ts), a     *)
(*     step machine with an explicit stack of message frames (SpecFormat, *)
(*     and SpecTerms for the messages that terms refer to);                *)
(*   - resolveOptions as a loop over the option entries (SpecOptions);     *)
(*   - the Messages accessor class of runtime/src/messages.ts              *)
(*     (SpecMessages).                                                     *)
(* Offsets are 0-based as in the source.  A JS string is a sequence of     *)
(* one-character strings, so that concatenation, substring and join are    *)
(* computed and not assumed.                                               *)
(***************************************************************************)
EXTENDS Integers, Sequences, FiniteSets, TLC

VARIABLES
  \* ---- parsePlaceholder
  src,        \* the source text
  start,      \* offset of the placeholder
  pos,        \* the scan position
  errors,     \* ParseError[]
  arg,        \* the operand parsed at lines 26-37, or NoNode
  body,       \* the body node, or NoNode
  junkError,  \* index in errors of the junk node's parse-error (0: undefined)
  sigil,      \* parseExpressionOrMarkup: src[start]
  exprStart,  \* parseExpressionOrMarkup: start
  name,       \* parseExpressionOrMarkup: name
  options,    \* parseExpressionOrMarkup: options
  node,       \* the returned placeholder node, or NoNode
  ppc,        \* position in parsePlaceholder
  \* ---- one formatted part and its metadata bag
  fmtMeta,    \* Formatted.meta: Undef or an object
  metaArg,    \* the meta argument of the latest addMeta call
  mpc,        \* "new" before the constructor ran, then "built"
  \* ---- formatToParts
  message,    \* the Message given to formatToParts
  callerScope,\* the value of the caller's scope object at the call
  runtime,    \* ctx.runtime: the format and select registries
  heap,       \* the scope objects; heap[1] is the caller's
  stack,      \* the formatToParts activations, outermost first
  calls,      \* the invocations of runtime functions, in order
  visits,     \* the ids of the function occurrences resolved, in order
  out,        \* the returned parts, or the value raised
  rpc,        \* "run", then "done" or "raised"
  \* ---- resolveOptions
  optScope,   \* ctx.scope
  optEntries, \* Object.entries(options), or Undef for no options
  optExpected,\* the expected argument
  optIndex,   \* the number of entries the loop of line 184 has handled
  optOut,     \* opt
  opc,        \* "loop", then "done"
  \* ---- one Messages instance (runtime/src/messages.ts)
  m_data,     \* this._data: the entries <<locale, data>> in insertion order
  m_fallback, \* this._fallback: the entries <<locale, list or null>>
  m_defaultLocale, \* this._defaultLocale
  m_locale,   \* this._locale
  gout,       \* the latest call: get and its result, the tag assigned, or
              \* the error raised
  gpc         \* "ready" once constructed

pvars == <<src, start, pos, errors, arg, body, junkError, sigil, exprStart,
           name, options, node, ppc>>

mvars == <<fmtMeta, metaArg, mpc>>

rvars == <<message, callerScope, runtime, heap, stack, calls, visits, out,
           rpc>>

ovars == <<optScope, optEntries, optExpected, optIndex, optOut, opc>>

gvars == <<m_data, m_fallback, m_defaultLocale, m_locale, gout, gpc>>

vars == <<pvars, mvars, rvars, ovars, gvars>>

Min(a, b) == IF a < b THEN a ELSE b
Max(a, b) == IF a > b THEN a ELSE b

(***************************************************************************)
(* Strings                                                                 *)
(***************************************************************************)
Undefined == "undefined"

\* s[i] of a JS string: undefined outside the string, never an exception
CharAt(s, i) == IF i >= 0 /\ i < Len(s) THEN s[i + 1] ELSE Undefined

\* s.substring(a, b), for 0 <= a
substring(s, a, b) ==
  LET lo == Min(a, Len(s))
      hi == Min(b, Len(s))
  IN  IF lo >= hi THEN <<>> ELSE SubSeq(s, lo + 1, hi)

(***************************************************************************)
(* JS values: <<tag, payload>>                                             *)
(***************************************************************************)
Undef == <<"undefined", 0>>
Null == <<"null", 0>>
Bool(b) == <<"boolean", b>>
Num(n) == <<"number", n>>
Str(s) == <<"string", s>>
\* a plain object: a function from keys (strings) to values
Obj(f) == <<"object", f>>
\* an instance of Boolean, Number or String wrapping the primitive x
Boxed(x) == <<"boxed", x>>
EmptyObj == Obj(<<>>)

Tag(x) == x[1]
Val(x) == x[2]

typeof(x) ==
  CASE Tag(x) \in {"null", "object", "boxed", "array", "formatted",
                   "literal", "variable", "function", "term"} -> "object"
    [] Tag(x) = "native" -> "function"
    [] OTHER -> Tag(x)

\* x.valueOf() for an object x that is not a formatted part
valueOf(x) == IF Tag(x) = "boxed" THEN Val(x) ELSE x

\* own keys of an object
Keys(o) == DOMAIN Val(o)
\* o[k]: undefined when o has no such property
Get(o, k) == IF k \in Keys(o) THEN Val(o)[k] ELSE Undef
\* o[k] = v
Put(o, k, v) ==
  Obj([x \in Keys(o) \cup {k} |-> IF x = k THEN v ELSE Val(o)[x]])

\* keys every object inherits from Object.prototype
ProtoKeys == {<<"toString">>}
\* key in o
KeyIn(o, k) == k \in Keys(o) \/ k \in ProtoKeys

(***************************************************************************)
(* Lexical helpers (parser/util.ts, parser/names.ts, parser/values.ts)     *)
(***************************************************************************)
WsChars == {" "}
NameChars == {"a"}

RECURSIVE whitespaces(_, _)
whitespaces(s, st) ==
  IF CharAt(s, st) \in WsChars THEN 1 + whitespaces(s, st + 1) ELSE 0

\* the longest run of name characters at st
RECURSIVE parseNameValue(_, _)
parseNameValue(s, st) ==
  IF CharAt(s, st) \in NameChars
  THEN <<CharAt(s, st)>> \o parseNameValue(s, st + 1)
  ELSE <<>>

NoNode == [type |-> "none"]

Err(type, char, st, end) ==
  [type |-> type, char |-> char, start |-> st, end |-> end]
NoEnd == -1
NoChar == ""

\* Nmtoken: a run of name characters; an empty run is an empty-token error
parseNmtoken(s, st, errs) ==
  LET value == parseNameValue(s, st) IN
  [node   |-> [type |-> "nmtoken", start |-> st, end |-> st + Len(value),
               value |-> value],
   errors |-> IF value = <<>>
              THEN Append(errs, Err("empty-token", NoChar, st, NoEnd))
              ELSE errs]

\* offset of the first ')' at or after i, or -1
RECURSIVE findClose(_, _)
findClose(s, i) ==
  IF i >= Len(s) THEN -1
  ELSE IF CharAt(s, i) = ")" THEN i
  ELSE findClose(s, i + 1)

\* Literal ::= '(' ... ')'; without ')' the literal runs to the end of input
parseLiteral(s, st, errs) ==
  LET c == findClose(s, st + 1) IN
  IF c >= 0
  THEN [node   |-> [type |-> "literal", start |-> st, end |-> c + 1,
                    value |-> substring(s, st + 1, c)],
        errors |-> errs]
  ELSE [node   |-> [type |-> "literal", start |-> st, end |-> Len(s),
                    value |-> substring(s, st + 1, Len(s))],
        errors |-> Append(errs, Err("missing-char", ")", Len(s), NoEnd))]

\* Variable ::= '$' Name; an empty name is an empty-token error
parseVariable(s, st, errs) ==
  LET nm == parseNameValue(s, st + 1) IN
  [node   |-> [type |-> "variable", start |-> st,
               end |-> st + 1 + Len(nm), name |-> nm],
   errors |-> IF nm = <<>>
              THEN Append(errs, Err("empty-token", NoChar, st + 1, st + 2))
              ELSE errs]

(***************************************************************************)
(* parseOption (placeholder.ts 140-163)                                    *)
(***************************************************************************)
parseOption(s, st, errs) ==
  LET nm   == parseNameValue(s, st)
      p1   == st + Len(nm)
      p2   == p1 + whitespaces(s, p1)
      hasEq == CharAt(s, p2) = "="
      p3   == IF hasEq THEN p2 + 1 ELSE p2
      e1   == IF hasEq THEN errs
              ELSE Append(errs, Err("missing-char", "=", p2, NoEnd))
      p4   == p3 + whitespaces(s, p3)
      v    == CASE CharAt(s, p4) = "(" -> parseLiteral(s, p4, e1)
                [] CharAt(s, p4) = "$" -> parseVariable(s, p4, e1)
                [] OTHER               -> parseNmtoken(s, p4, e1)
  IN  [node   |-> [start |-> st, end |-> v.node.end, name |-> nm,
                   value |-> v.node],
       errors |-> v.errors]

(***************************************************************************)
(* Source texts                                                            *)
(***************************************************************************)
MaxLen == 3

Alphabet == {"{", "}", ":", "+", "-", "$", "(", ")", "=", " ", "a", "!"}

\* every text of at most MaxLen characters
AllStrings == UNION {[1..n -> Alphabet] : n \in 0..MaxLen}

\* the text before the placeholder: none, or the placeholder `{}`
Prefixes == {<<>>, <<"{", "}">>}
OperandTexts ==
  {<<>>, <<" ">>, <<"$", "a">>, <<"(", "a", ")">>, <<"(", ")">>,
   <<"(", "a">>, <<"$">>, <<"!">>, <<" ", "$", "a", " ">>}
TailTexts ==
  {<<>>, <<":", "a">>, <<"+", "a">>, <<"-", "a">>, <<":">>,
   <<" ", ":", "a", "a">>}
OptionTexts ==
  {<<>>, <<" ", "a", "=", "a">>, <<" ", "a", "=", "$", "a">>,
   <<" ", "a", "=", "(", "a", ")">>, <<" ", "a">>, <<"=", "a">>,
   <<" ", "a", "=", "a", " ", "a", "=", "a">>, <<" ", "=", "a">>,
   <<" ", "a", " ", "=", " ", "a">>}
CloseTexts ==
  {<<"}">>, <<>>, <<" ", "}">>, <<"!", "}">>, <<"!">>, <<" ">>,
   <<"}", "}">>}

\* texts shaped like a placeholder, longer than MaxLen
ShapedInputs ==
  {[src   |-> p \o <<"{">> \o o \o t \o op \o c, start |-> Len(p)] :
     p \in Prefixes, o \in OperandTexts, t \in TailTexts,
     op \in OptionTexts, c \in CloseTexts}

\* every text with every start offset inside it
ShortInputs ==
  {[src |-> s, start |-> i] : s \in AllStrings \ {<<>>}, i \in 0..(MaxLen - 1)}

ParseInputs ==
  ShapedInputs \cup {x \in ShortInputs : x.start < Len(x.src)}

\* The errors argument is the list shared by the placeholders of one text:
\* at the call for a placeholder that follows `{}` at the head of the text
\* it holds the parse-error the call for `{}` recorded (lines 59-62).
PriorErrors(s, st) ==
  IF st >= 2 /\ substring(s, 0, 2) = <<"{", "}">>
  THEN <<Err("parse-error", NoChar, 1, 1)>>
  ELSE <<>>

\* the parts of the state a specification does not use stay idle
PIdle ==
  /\ src = <<>> /\ start = 0 /\ pos = 0 /\ errors = <<>> /\ arg = NoNode
  /\ body = NoNode /\ junkError = 0 /\ sigil = Undefined /\ exprStart = 0
  /\ name = <<>> /\ options = <<>> /\ node = NoNode /\ ppc = "idle"

MIdle == fmtMeta = Undef /\ metaArg = Undef /\ mpc = "idle"

RIdle ==
  /\ message = Undef /\ callerScope = Undef /\ runtime = Undef
  /\ heap = <<>> /\ stack = <<>> /\ calls = <<>> /\ visits = <<>>
  /\ out = Undef /\ rpc = "idle"

OIdle ==
  /\ optScope = Undef /\ optEntries = Undef /\ optExpected = Undef
  /\ optIndex = 0 /\ optOut = Undef /\ opc = "idle"

GIdle ==
  /\ m_data = <<>> /\ m_fallback = <<>> /\ m_defaultLocale = Null
  /\ m_locale = Null /\ gout = Undef /\ gpc = "idle"

(***************************************************************************)
(* parsePlaceholder (placeholder.ts 18-84)                                 *)
(***************************************************************************)
PInit ==
  /\ \E x \in ParseInputs : src = x.src /\ start = x.start
  /\ pos = 0
  /\ errors = PriorErrors(src, start)
  /\ arg = NoNode
  /\ body = NoNode
  /\ junkError = 0
  /\ sigil = Undefined
  /\ exprStart = 0
  /\ name = <<>>
  /\ options = <<>>
  /\ node = NoNode
  /\ ppc = "operand"
  /\ MIdle /\ RIdle /\ OIdle /\ GIdle

\* lines 23-37: skip '{' and whitespace, parse an operand if one starts here
ParseOperand ==
  /\ ppc = "operand"
  /\ LET p0 == start + 1
         p1 == p0 + whitespaces(src, p0)
         r  == CASE CharAt(src, p1) = "(" -> parseLiteral(src, p1, errors)
                 [] CharAt(src, p1) = "$" -> parseVariable(src, p1, errors)
                 [] OTHER -> [node |-> NoNode, errors |-> errors]
     IN  /\ arg' = r.node
         /\ errors' = r.errors
         /\ pos' = IF r.node = NoNode THEN p1 ELSE r.node.end
  /\ ppc' = "body"
  /\ UNCHANGED <<src, start, body, junkError, sigil, exprStart, name,
                 options, node>>
  /\ UNCHANGED <<mvars, rvars, ovars, gvars>>

\* lines 47-64, and for ':' '+' '-' lines 99-104 of parseExpressionOrMarkup
ParseBody ==
  /\ ppc = "body"
  /\ LET p == pos + whitespaces(src, pos) IN
     IF CharAt(src, p) \in {":", "+", "-"}
     THEN LET nm == parseNameValue(src, p + 1) IN
          /\ sigil' = CharAt(src, p)
          /\ exprStart' = p
          /\ name' = nm
          /\ errors' = IF nm = <<>>
                       THEN Append(errors, Err("empty-token", NoChar, p + 1, NoEnd))
                       ELSE errors
          /\ options' = <<>>
          /\ pos' = p + 1 + Len(nm)
          /\ ppc' = "options"
          /\ UNCHANGED <<body, junkError>>
     ELSE IF arg # NoNode
     THEN /\ body' = arg
          /\ pos' = p
          /\ ppc' = "close"
          /\ UNCHANGED <<errors, junkError, sigil, exprStart, name, options>>
     ELSE /\ body' = [type |-> "junk", start |-> p, end |-> p,
                      source |-> substring(src, p, p + 1)]
          /\ errors' = Append(errors, Err("parse-error", NoChar, p, p))
          /\ junkError' = Len(errors) + 1
          /\ pos' = p
          /\ ppc' = "close"
          /\ UNCHANGED <<sigil, exprStart, name, options>>
  /\ UNCHANGED <<src, start, arg, node>>
  /\ UNCHANGED <<mvars, rvars, ovars, gvars>>

\* lines 105-114 without the no-progress exit of line 111
optionLoopStepNoExit(s, p, errs, opts) ==
  LET ws == whitespaces(s, p) IN
  IF CharAt(s, p + ws) = "}"
  THEN [pos |-> p, errors |-> errs, options |-> opts, brk |-> TRUE]
  ELSE LET e1  == IF ws = 0
                  THEN Append(errs, Err("missing-char", " ", p, NoEnd))
                  ELSE errs
           opt == parseOption(s, p + ws, e1)
       IN  [pos |-> opt.node.end, errors |-> opt.errors,
            options |-> Append(opts, opt.node), brk |-> FALSE]

\* lines 105-114: one iteration of the option loop, from scan position p;
\* brk: the iteration ended the loop (lines 107, 111)
optionLoopStep(s, p, errs, opts) ==
  LET ws == whitespaces(s, p) IN
  IF CharAt(s, p + ws) = "}"
  THEN [pos |-> p, errors |-> errs, options |-> opts, brk |-> TRUE]
  ELSE LET e1  == IF ws = 0
                  THEN Append(errs, Err("missing-char", " ", p, NoEnd))
                  ELSE errs
           p1  == p + ws
           opt == parseOption(s, p1, e1)
       IN  IF opt.node.end = p1
           THEN [pos |-> p1, errors |-> opt.errors, options |-> opts,
                 brk |-> TRUE]
           ELSE [pos |-> opt.node.end, errors |-> opt.errors,
                 options |-> Append(opts, opt.node), brk |-> FALSE]

\* line 105: the loop condition
OptionLoopRuns == ppc = "options" /\ pos < Len(src)
OptionLoopOver == ppc = "exprEnd" \/ (ppc = "options" /\ pos >= Len(src))

OptionIter ==
  /\ OptionLoopRuns
  /\ LET r == optionLoopStep(src, pos, errors, options) IN
     /\ pos' = r.pos
     /\ errors' = r.errors
     /\ options' = r.options
     /\ ppc' = IF r.brk THEN "exprEnd" ELSE "options"
  /\ UNCHANGED <<src, start, arg, body, junkError, sigil, exprStart, name, node>>
  /\ UNCHANGED <<mvars, rvars, ovars, gvars>>

\* lines 116-136, and line 53
ExprFinish ==
  /\ OptionLoopOver
  /\ LET end == pos
         e1 == IF sigil # ":" /\ arg # NoNode
               THEN <<Err("extra-content", NoChar, arg.start, arg.end)>> \o errors
               ELSE errors
         e2 == IF sigil = "-" /\ Len(options) > 0
               THEN Append(e1, Err("extra-content", NoChar, options[1].start,
                                   options[Len(options)].end))
               ELSE e1
     IN  /\ body' =
              CASE sigil = ":" ->
                     [type |-> "expression", operand |-> arg,
                      start |-> exprStart, end |-> end, name |-> name,
                      options |-> options]
                [] sigil = "+" ->
                     [type |-> "markup-start", start |-> exprStart,
                      end |-> end, name |-> name, options |-> options]
                [] OTHER ->
                     [type |-> "markup-end", start |-> exprStart,
                      end |-> end, name |-> name]
         /\ errors' = e2
  /\ ppc' = "close"
  /\ UNCHANGED <<src, start, pos, arg, junkError, sigil, exprStart, name,
                 options, node>>
  /\ UNCHANGED <<mvars, rvars, ovars, gvars>>

\* offset of the next '}' at or after i, or the end of input (line 71)
RECURSIVE scanToBrace(_, _)
scanToBrace(s, i) ==
  IF i < Len(s) /\ CharAt(s, i) # "}" THEN scanToBrace(s, i + 1) ELSE i

\* lines 65-81 with the missing-char error placed before the whitespace
\* skip of line 65
closeStepErrorBeforeSkip(s, ps, errs, bd, je) ==
  LET p == ps + whitespaces(s, ps) IN
  IF p >= Len(s)
  THEN [pos |-> p, body |-> bd,
        errors |-> Append(errs, Err("missing-char", "}", ps, NoEnd))]
  ELSE IF CharAt(s, p) # "}"
  THEN [pos |-> scanToBrace(s, p), body |-> bd,
        errors |-> Append(errs, Err("extra-content", NoChar, p,
                                    scanToBrace(s, p)))]
  ELSE [pos |-> p + 1, body |-> bd, errors |-> errs]

\* lines 65-81 with a junk body handled as any other body at lines 72-78
closeStepJunkReported(s, ps, errs, bd, je) ==
  LET p == ps + whitespaces(s, ps) IN
  IF p >= Len(s)
  THEN [pos |-> p, body |-> bd,
        errors |-> Append(errs, Err("missing-char", "}", p, NoEnd))]
  ELSE IF CharAt(s, p) # "}"
  THEN [pos |-> scanToBrace(s, p), body |-> bd,
        errors |-> Append(errs, Err("extra-content", NoChar, p,
                                    scanToBrace(s, p)))]
  ELSE [pos |-> p + 1, body |-> bd, errors |-> errs]

\* lines 65-81: require '}' after the body bd; je is junkError
closeStep(s, ps, errs, bd, je) ==
  LET p == ps + whitespaces(s, ps) IN
  IF p >= Len(s)
  THEN [pos |-> p, body |-> bd,
        errors |-> Append(errs, Err("missing-char", "}", p, NoEnd))]
  ELSE IF CharAt(s, p) # "}"
  THEN LET q == scanToBrace(s, p) IN
       IF bd.type = "junk"
       THEN [pos |-> q,
             body |-> [bd EXCEPT !.end = q,
                                 !.source = substring(s, bd.start, q)],
             errors |-> IF je # 0 THEN [errs EXCEPT ![je].end = q] ELSE errs]
       ELSE [pos |-> q, body |-> bd,
             errors |-> Append(errs, Err("extra-content", NoChar, p, q))]
  ELSE [pos |-> p + 1, body |-> bd, errors |-> errs]

\* lines 65-83
Close ==
  /\ ppc = "close"
  /\ LET r == closeStep(src, pos, errors, body, junkError) IN
     /\ pos' = r.pos
     /\ errors' = r.errors
     /\ body' = r.body
     /\ node' = [type |-> "placeholder", start |-> start, end |-> r.pos,
                 body |-> r.body]
  /\ ppc' = "done"
  /\ UNCHANGED <<src, start, arg, junkError, sigil, exprStart, name, options>>
  /\ UNCHANGED <<mvars, rvars, ovars, gvars>>

PNext == ParseOperand \/ ParseBody \/ OptionIter \/ ExprFinish \/ Close

SpecParse == PInit /\ [][PNext]_vars

(***************************************************************************)
(* Claims about parsePlaceholder (checked under SpecParse)                 *)
(***************************************************************************)
ParseDone == ppc = "done"

\* no '}' at or after the start offset
Truncated == \A i \in start..(Len(src) - 1) : CharAt(src, i) # "}"

MissingCharErrors == {i \in 1..Len(errors) : errors[i].type = "missing-char"}
MissingBraceErrors == {i \in MissingCharErrors : errors[i].char = "}"}

\* C2 as stated: a truncated placeholder records exactly one missing-char
\* error, and it is the one for '}' at source.length.
C2_ExactlyOneMissingChar ==
  (ParseDone /\ Truncated) =>
    /\ Cardinality(MissingCharErrors) = 1
    /\ \A i \in MissingCharErrors :
         errors[i].char = "}" /\ errors[i].start = Len(src)

\* C2 (amended): for a truncated placeholder at most one missing-char error
\* for '}' is recorded; when recorded it is the last error and starts at
\* source.length; when it is not recorded the content that follows the body
\* runs to the end of input and is reported instead, as the last error
\* (extra-content ending at source.length) or as the widened junk node.
C2_TruncatedMissingBrace ==
  (ParseDone /\ Truncated) =>
    /\ Cardinality(MissingBraceErrors) <= 1
    /\ \A i \in MissingBraceErrors :
         i = Len(errors) /\ errors[i].start = Len(src)
    /\ MissingBraceErrors = {} =>
         \/ /\ body.type = "junk"
            /\ body.end = Len(src)
            /\ body.end > body.start
            /\ errors[junkError].end = Len(src)
         \/ /\ body.type # "junk"
            /\ errors # <<>>
            /\ errors[Len(errors)].type = "extra-content"
            /\ errors[Len(errors)].end = Len(src)
    /\ node.end = Len(src)

\* a truncated annotation with a malformed option: two missing-char errors,
\* the last one for '}'
C2_Witness ==
  /\ ParseDone /\ Truncated
  /\ body.type = "expression"
  /\ Cardinality(MissingCharErrors) = 2
  /\ MissingBraceErrors = {Len(errors)}

\* Texts generated by the grammar
\*   Placeholder ::= '{' Operand? (Annotation | MarkupTail)? '}'
\* that both the specification's grammar and the grammar in the comments of
\* placeholder.ts (17, 86-92) accept.
WfWs == {<<>>, <<" ">>}
WfOperands == {<<"$", "a">>, <<"(", "a", ")">>, <<"(", ")">>}
WfOptions == {<<>>, <<" ", "a", "=", "a">>, <<" ", "a", "=", "$", "a">>,
              <<" ", "a", "=", "(", "a", ")">>,
              <<" ", "a", "=", "a", " ", "a", "=", "a">>}
WfAnnotations == {<<":", "a">> \o o : o \in WfOptions}
WfMarkup == {<<"+", "a">> \o o : o \in WfOptions} \cup {<<"-", "a">>}
WfInteriors ==
  {<<>>} \cup WfOperands \cup WfAnnotations \cup WfMarkup
  \cup {o \o w \o a : o \in WfOperands, w \in WfWs, a \in WfAnnotations}
WellFormedTexts ==
  {<<"{">> \o w1 \o i \o w2 \o <<"}">> : w1 \in WfWs, i \in WfInteriors,
                                          w2 \in WfWs}

WellFormedAt(s, st) ==
  \E w \in WellFormedTexts : substring(s, st, st + Len(w)) = w

\* offset one past the '}' that closes the well-formed placeholder at st
WellFormedEnd(s, st) ==
  CHOOSE e \in (st + 2)..Len(s) :
    \E w \in WellFormedTexts : Len(w) = e - st /\ substring(s, st, e) = w

\* C3 as stated: every well-formed placeholder, the empty one included,
\* parses with zero errors (none added to the errors it was given) to a node
\* spanning exactly '{' ... '}'.
C3_WellFormedNoErrors ==
  (ParseDone /\ WellFormedAt(src, start)) =>
    /\ errors = PriorErrors(src, start)
    /\ node.start = start
    /\ node.end = WellFormedEnd(src, start)

\* C4: parsePlaceholder terminates and returns a placeholder node with
\* start <= end <= source.length; each option-loop iteration strictly
\* advances the scan position or ends the loop.  Termination: while not
\* done the guard of some step holds, and every step decreases ParseMeasure.
ParseRank ==
  CASE ppc = "operand" -> 5
    [] ppc = "body"    -> 4
    [] ppc = "options" -> 3
    [] ppc = "exprEnd" -> 2
    [] ppc = "close"   -> 1
    [] OTHER           -> 0

ParseMeasure ==
  ParseRank * (Len(src) + 2)
  + (IF ppc = "options" THEN Len(src) + 1 - pos ELSE 0)

C4_TerminatesInBounds ==
  /\ [](ParseDone =>
          /\ node.type = "placeholder"
          /\ node.start = start
          /\ start <= node.end /\ node.end <= Len(src))
  /\ [](~ParseDone =>
          \/ ppc \in {"operand", "body", "close"}
          \/ OptionLoopRuns
          \/ OptionLoopOver)
  /\ [][ParseMeasure' < ParseMeasure /\ ParseMeasure' >= 0]_pvars
  /\ [][ppc = "options" /\ ppc' = "options" => pos' > pos]_pvars

\* a parse that went twice round the option loop and ran to the end of input
C4_Witness ==
  ParseDone /\ Len(options) = 2 /\ node.end = Len(src) /\ Truncated

\* the operand of a markup tail: an operand was parsed and `+` or `-` follows
MarkupWithOperand == arg # NoNode /\ sigil \in {"+", "-"}

C15_OperandErrors ==
  {i \in DOMAIN errors :
     errors[i] = Err("extra-content", NoChar, arg.start, arg.end)}

\* C15: for an operand followed by a `+` or `-` markup tail, exactly one
\* extra-content error spans the operand, it is the first of the error list
\* and no error of the list starts before it, and the markup-start or
\* markup-end body returned has no operand.
C15_OperandErrorFirst ==
  (ParseDone /\ MarkupWithOperand) =>
    /\ C15_OperandErrors = {1}
    /\ \A i \in DOMAIN errors : errors[1].start <= errors[i].start
    /\ body.type \in {"markup-start", "markup-end"}
    /\ "operand" \notin DOMAIN body
    /\ node.body = body

\* the offset reached after the body and the whitespace that follows it
C16_After == pos + whitespaces(src, pos)

\* a character other than `}` follows the body before the end of input
C16_WrongChar ==
  ppc = "close" /\ C16_After < Len(src) /\ CharAt(src, C16_After) # "}"

\* the offset of the next `}` from there, or the length of the text
C16_NextBrace ==
  CHOOSE q \in C16_After..Len(src) :
    /\ q = Len(src) \/ CharAt(src, q) = "}"
    /\ \A i \in C16_After..(q - 1) : CharAt(src, i) # "}"

C16_JunkErrors ==
  {i \in DOMAIN errors :
     /\ i > Len(PriorErrors(src, start))
     /\ errors[i].type = "parse-error"}

\* C16: when a character other than `}` follows the body and its trailing
\* whitespace, a junk body and its one parse-error are extended to the next
\* `}` or the end of input and no error is added; any other body is returned
\* unchanged and one extra-content error from that character to the next `}`
\* or the end of input is added; the placeholder ends at that `}`, which is
\* not consumed, or at the end of input.
C16_WrongCloseHandled ==
  [][C16_WrongChar =>
       /\ body.type = "junk" =>
            /\ body' = [body EXCEPT !.end = C16_NextBrace,
                                    !.source = substring(src, body.start,
                                                         C16_NextBrace)]
            /\ Cardinality(C16_JunkErrors) = 1
            /\ Len(errors') = Len(errors)
            /\ \A i \in DOMAIN errors :
                 errors'[i] = IF i \in C16_JunkErrors
                              THEN [errors[i] EXCEPT !.end = C16_NextBrace]
                              ELSE errors[i]
       /\ body.type # "junk" =>
            /\ body' = body
            /\ errors' = Append(errors, Err("extra-content", NoChar, C16_After,
                                            C16_NextBrace))
       /\ ppc' = "done"
       /\ node'.body = body'
       /\ node'.end = C16_NextBrace
       /\ node'.end < Len(src) => CharAt(src, node'.end) = "}"]_vars

\* a junk body that absorbed two characters up to a `}` that follows
C16_Witness ==
  /\ ParseDone /\ body.type = "junk"
  /\ body.end = body.start + 2 /\ Len(body.source) = 2
  /\ node.end = body.end /\ CharAt(src, node.end) = "}"
  /\ Len(errors) = 1 /\ errors[1] = Err("parse-error", NoChar, body.start, body.end)

(***************************************************************************)
(* addMeta (format-message.ts 99-119)                                      *)
(***************************************************************************)
\* lines 102-117 without the `key in fmt.meta` test of line 102
addMetaEntryOverwrite(bag, key, value) ==
  LET v == IF typeof(value) = "object" /\ Tag(value) # "null"
           THEN valueOf(value) ELSE value
  IN  IF typeof(v) \in {"boolean", "number", "string"} \/ Tag(v) = "null"
      THEN Put(bag, key, v)
      ELSE bag

\* lines 102-117: one entry of meta merged into the bag
addMetaEntry(bag, key, value) ==
  IF KeyIn(bag, key) THEN bag
  ELSE IF typeof(value) = "object" /\ Tag(value) = "null"
  THEN Put(bag, key, Null)
  ELSE LET v == IF typeof(value) = "object" THEN valueOf(value) ELSE value
       IN  IF typeof(v) \in {"boolean", "number", "string"}
           THEN Put(bag, key, v)
           ELSE bag

RECURSIVE addMetaEntries(_, _, _)
addMetaEntries(bag, meta, keys) ==
  IF keys = {} THEN bag
  ELSE LET k == CHOOSE k \in keys : TRUE IN
       addMetaEntries(addMetaEntry(bag, k, Val(meta)[k]), meta, keys \ {k})

\* addMeta(fmt, meta): the new value of fmt.meta
addMeta(fm, meta) ==
  addMetaEntries(IF Tag(fm) = "undefined" THEN EmptyObj ELSE fm, meta,
                 Keys(meta))

\* lines 38-42 of the Formatted constructor: the metadata of a new part made
\* from a value whose own metadata is valueMeta (Undef when the value is not
\* a formatted part or has none) and from the meta argument
constructMeta(valueMeta, meta) ==
  LET m1 == IF Tag(valueMeta) # "undefined" THEN addMeta(Undef, valueMeta)
            ELSE Undef
  IN  IF Tag(meta) # "undefined" THEN addMeta(m1, meta) ELSE m1

(***************************************************************************)
(* Metadata merges into one formatted part (specification SpecMeta)        *)
(***************************************************************************)
MetaKeys == {<<"a">>, <<"b">>, <<"toString">>}
MetaValues ==
  {Undef, Null, Bool(TRUE), Num(1), Str(<<"s">>), Boxed(Num(2)), EmptyObj}
\* Meta objects: any values under any of the keys (one value under the
\* inherited key, which is never stored)
Metas ==
  UNION {{Obj(f) : f \in {g \in [K -> MetaValues] :
                            \A k \in K \cap ProtoKeys : g[k] = Num(1)}} :
           K \in SUBSET MetaKeys}
\* the metadata of an already formatted value: scalars and null
StoredValues == {Null, Bool(TRUE), Num(1), Str(<<"s">>)}
FormattedMetas ==
  UNION {{Obj(f) : f \in [K -> StoredValues]} :
           K \in SUBSET (MetaKeys \ ProtoKeys)}

MInit ==
  /\ fmtMeta = Undef
  /\ metaArg = Undef
  /\ mpc = "new"
  /\ PIdle /\ RIdle /\ OIdle /\ GIdle

\* new Formatted(locales, value, meta)
Construct ==
  /\ mpc = "new"
  /\ \E vm \in FormattedMetas \cup {Undef}, m \in Metas \cup {Undef} :
       /\ fmtMeta' = constructMeta(vm, m)
       /\ metaArg' = m
  /\ mpc' = "built"
  /\ UNCHANGED <<pvars, rvars, ovars, gvars>>

\* addMeta(fmt, meta) on the constructed part (lines 142, 224, 233)
Merge ==
  /\ mpc = "built"
  /\ \E m \in Metas :
       /\ fmtMeta' = addMeta(fmtMeta, m)
       /\ metaArg' = m
  /\ UNCHANGED mpc
  /\ UNCHANGED <<pvars, rvars, ovars, gvars>>

MNext == Construct \/ Merge

SpecMeta == MInit /\ [][MNext]_vars

(***************************************************************************)
(* Claims about addMeta (checked under SpecMeta)                           *)
(***************************************************************************)
IsScalar(v) == typeof(v) \in {"boolean", "number", "string"}

OwnMeta == IF Tag(fmtMeta) = "undefined" THEN <<>> ELSE Val(fmtMeta)

\* C9 as stated: a key present in the bag is never overwritten, and every
\* value in the bag is a boolean, a number or a string.
C9_FirstWriteWinsScalarsOnly ==
  /\ [](\A k \in DOMAIN OwnMeta : IsScalar(OwnMeta[k]))
  /\ [][\A k \in DOMAIN OwnMeta :
          k \in DOMAIN OwnMeta' /\ OwnMeta'[k] = OwnMeta[k]]_mvars

\* C9 (amended): a key present in the bag is never overwritten by a later
\* merge, and every value in the bag is a boolean, a number, a string or
\* null.  A merged entry whose key is not yet in the bag is stored as null
\* when it is null, as its valueOf() when it is an object whose valueOf() is
\* a boolean, number or string, as itself when it is such a scalar, and is
\* otherwise not stored.
C9_FirstWriteWinsScalarsOrNull ==
  /\ [](\A k \in DOMAIN OwnMeta :
          IsScalar(OwnMeta[k]) \/ OwnMeta[k] = Null)
  /\ [][\A k \in DOMAIN OwnMeta :
          k \in DOMAIN OwnMeta' /\ OwnMeta'[k] = OwnMeta[k]]_mvars
  /\ [][mpc = "built" =>
          \A k \in Keys(metaArg') \ DOMAIN OwnMeta :
            LET v == Val(metaArg')[k] IN
            IF k \in ProtoKeys THEN k \notin DOMAIN OwnMeta'
            ELSE IF v = Null THEN Get(fmtMeta', k) = Null
            ELSE IF IsScalar(valueOf(v)) THEN Get(fmtMeta', k) = valueOf(v)
            ELSE k \notin DOMAIN OwnMeta']_mvars

\* a bag that kept its first value under "a" against a later merge of a
\* different one, and holds the projection of a Number instance under "b"
C9_Witness ==
  /\ mpc = "built"
  /\ Tag(fmtMeta) = "object"
  /\ Get(fmtMeta, <<"a">>) = Null
  /\ Get(fmtMeta, <<"b">>) = Num(2)
  /\ Tag(metaArg) = "object"
  /\ Get(metaArg, <<"a">>) = Str(<<"s">>)

(***************************************************************************)
(* The data model (data-model.ts) and formatted parts                      *)
(* (format-message.ts 24-97).  A part is <<kind, fields>>; the options of  *)
(* a function and the scope of a term are <<"entries", <<key, value>>...>> *)
(* in insertion order, or Undef.                                           *)
(***************************************************************************)
Literal(value, meta) == <<"literal", [value |-> value, meta |-> meta]>>
Variable(var_path, meta) ==
  <<"variable", [var_path |-> var_path, meta |-> meta]>>
\* id names the occurrence, so that invocations can be counted
Function(id, func, args, opts, meta) ==
  <<"function", [id |-> id, func |-> func, args |-> args, options |-> opts,
                 meta |-> meta]>>
Term(res_id, msg_path, scope, meta) ==
  <<"term", [res_id |-> res_id, msg_path |-> msg_path, scope |-> scope,
             meta |-> meta]>>
Entries(seq) == <<"entries", seq>>
Pattern(parts) == <<"pattern", parts>>
Select(select, cases) == <<"select", [select |-> select, cases |-> cases]>>
Message(value, meta) == <<"message", [value |-> value, meta |-> meta]>>

isLiteral(part) == Tag(part) = "literal"
isVariable(part) == Tag(part) = "variable"
isFunction(part) == Tag(part) = "function"
isTerm(part) == Tag(part) = "term"
isSelect(value) == Tag(value) = "select"

isFormatted(x) == Tag(x) = "formatted"

\* Number(...).toString() for the numbers of the model
NaN == Num(-1)
NumStr(n) ==
  CASE n = 0 -> <<"0">> [] n = 1 -> <<"1">> [] n = 2 -> <<"2">>
    [] n = 3 -> <<"3">> [] n = 4 -> <<"4">> [] n = 5 -> <<"5">>
    [] OTHER -> <<"NaN">>

RECURSIVE FlatStrings(_)
FlatStrings(ss) == IF ss = <<>> THEN <<>> ELSE Head(ss) \o FlatStrings(Tail(ss))

\* String(x); for a formatted part this is its toString() (lines 45-52,
\* 63-65, 82-86).  The fixed texts are single atoms.
RECURSIVE String(_)
String(x) ==
  CASE Tag(x) = "string"    -> Val(x)
    [] Tag(x) = "number"    -> NumStr(Val(x))
    [] Tag(x) = "boolean"   -> IF Val(x) THEN <<"true">> ELSE <<"false">>
    [] Tag(x) = "undefined" -> <<"undefined">>
    [] Tag(x) = "null"      -> <<"null">>
    [] Tag(x) = "boxed"     -> String(Val(x))
    [] Tag(x) = "formatted" ->
         CASE Val(x).type = "fallback" ->
                <<"{">> \o Val(Val(x).value) \o <<"}">>
           [] Val(x).type = "message" ->
                FlatStrings([i \in 1..Len(Val(Val(x).value)) |->
                               String(Val(Val(x).value)[i])])
           [] OTHER -> String(Val(x).value)
    [] OTHER -> <<"[object Object]">>

\* new FormattedMessage(locales, res, meta): res is kept as an array
FormattedMessage(res, meta) ==
  <<"formatted", [type |-> "message", value |-> <<"array", res>>,
                  meta |-> constructMeta(Undef, meta)]>>

\* x.valueOf() of a formatted part (lines 57-59, 66-68, 74-76, 87-89)
FormattedValueOf(x) ==
  IF Val(x).type \in {"fallback", "message"} THEN Str(String(x))
  ELSE Val(x).value

\* new Formatted...(locales, value, meta) (lines 32-43)
Formatted(type, value, meta) ==
  IF isFormatted(value)
  THEN <<"formatted", [type |-> type, value |-> FormattedValueOf(value),
                       meta |-> constructMeta(Val(value).meta, meta)]>>
  ELSE <<"formatted", [type |-> type, value |-> value,
                       meta |-> constructMeta(Undef, meta)]>>

\* a === b for the values of the model (objects are never identical)
StrictEq(a, b) ==
  /\ Tag(a) = Tag(b)
  /\ Tag(a) \in {"string", "number", "boolean", "undefined", "null"}
  /\ a = b
  /\ a # NaN

\* !x
Falsy(x) ==
  \/ Tag(x) \in {"undefined", "null"}
  \/ x = Bool(FALSE) \/ x = Num(0) \/ x = NaN \/ x = Str(<<>>)

\* xs.join(sep): null and undefined elements give the empty string
RECURSIVE join(_, _)
join(xs, sep) ==
  LET s1 == IF Tag(Head(xs)) \in {"undefined", "null"} THEN <<>>
            ELSE String(Head(xs))
  IN  IF xs = <<>> THEN <<>>
      ELSE IF Len(xs) = 1 THEN s1
      ELSE s1 \o sep \o join(Tail(xs), sep)

(***************************************************************************)
(* Results of the resolvers: the value, the runtime functions invoked (in  *)
(* order) and the exception that escaped, if any                           *)
(***************************************************************************)
NoExc == <<"none", 0>>
Ok(v, log) == [v |-> v, log |-> log, exc |-> NoExc]
Throw(e, log) == [v |-> Undef, log |-> log, exc |-> <<"thrown", e>>]
Threw(r) == r.exc # NoExc

\* an Error instance
Error(nm, text) ==
  Obj([k \in {<<"name">>, <<"message">>, <<"stack">>} |->
         CASE k = <<"name">> -> Str(nm)
           [] k = <<"message">> -> Str(text)
           [] OTHER -> Str(<<"stack">>)])
TypeError(text) == Error(<<"TypeError">>, text)

\* error[key] for a caught value that is neither null nor undefined
Prop(x, key) == IF Tag(x) = "object" THEN Get(x, key) ELSE Undef

\* val[key] at line 336: key is converted to a string; every object
\* inherits the members of Object.prototype
Index(val, key) ==
  IF Tag(val) = "object"
  THEN IF String(key) \in Keys(val) THEN Val(val)[String(key)]
       ELSE IF String(key) \in ProtoKeys THEN <<"native", 0>>
       ELSE Undef
  ELSE Undef

\* Number(value) for a literal option value
Number(value) ==
  CASE Tag(value) = "number" -> value
    [] Tag(value) = "boolean" -> IF Val(value) THEN Num(1) ELSE Num(0)
    [] Tag(value) = "string" ->
         CASE Val(value) = <<>> -> Num(0)
           [] Val(value) = <<"0">> -> Num(0)
           [] Val(value) = <<"1">> -> Num(1)
           [] Val(value) = <<"2">> -> Num(2)
           [] OTHER -> NaN
    [] OTHER -> NaN

(***************************************************************************)
(* The resolvers of format-message.ts for parts other than terms.  ctx is  *)
(* [scope |-> the scope object, rt |-> the runtime]; rt.format and         *)
(* rt.select map the registered names to [call, options], call being       *)
(* <<"return", v>> or <<"throw", v>>.  Message paths, selectors, function  *)
(* arguments and variable paths hold no term: terms are resolved by the    *)
(* frame machine below.                                                    *)
(***************************************************************************)
RECURSIVE resolvePart(_, _)
RECURSIVE resolveArgument(_, _)
RECURSIVE resolveVariable(_, _)
RECURSIVE walkPath(_, _, _, _)
RECURSIVE resolveFallback(_, _)
RECURSIVE fallbackValue(_, _)
RECURSIVE resolveParts(_, _, _)
RECURSIVE resolveArguments(_, _, _)

\* r.valueOf() of a resolved part, an exception passing through
valueOfResult(r) == IF Threw(r) THEN r ELSE Ok(FormattedValueOf(r.v), r.log)

\* the results of a map: r for the first element, rest for the others,
\* which are not evaluated once one raised
consResult(r, rest) ==
  IF Threw(r) THEN r
  ELSE IF Threw(rest) THEN Throw(Val(rest.exc), r.log \o rest.log)
  ELSE Ok(<<r.v>> \o rest.v, r.log \o rest.log)

\* lines 164-171
resolveArgument(ctx, part) ==
  IF isLiteral(part) THEN Ok(Val(part).value, <<>>)
  ELSE IF isVariable(part) THEN valueOfResult(resolveVariable(ctx, part))
  ELSE Throw(Error(<<"Error">>, <<"Unsupported function argument">>), <<>>)

\* line 336: val = val[k], k the resolved segment
walkNext(ctx, path, i, val, k) ==
  IF Threw(k) THEN k ELSE walkPath(ctx, path, i + 1, Index(val, k.v))

\* lines 331-337: the loop over var_path from segment i with current val
walkPath(ctx, path, i, val) ==
  IF i > Len(path) THEN Ok(val, <<>>)
  ELSE IF Falsy(val) \/ typeof(val) # "object" THEN Ok(Undef, <<>>)
  ELSE walkNext(ctx, path, i, val, resolveArgument(ctx, path[i]))

\* lines 338-340 wrapping whatever the walk gave
variableResultDynamic(ctx, part, r) ==
  IF Threw(r) THEN r
  ELSE Ok(Formatted("dynamic", r.v, Val(part).meta), <<>>)

\* lines 338-340: r is the val the walk ended with
variableResult(ctx, part, r) ==
  IF Threw(r) THEN r
  ELSE IF r.v = Undef THEN resolveFallback(ctx, part)
  ELSE Ok(Formatted("dynamic", r.v, Val(part).meta), <<>>)

\* lines 324-341
resolveVariable(ctx, part) ==
  variableResult(ctx, part,
                 walkPath(ctx, Val(part).var_path, 1,
                          IF Len(Val(part).var_path) > 0 THEN ctx.scope
                          ELSE Undef))

\* lines 344-348: r is the fallback value
fallbackResult(part, r) ==
  IF Threw(r) THEN r
  ELSE Ok(Formatted("fallback", r.v, Val(part).meta), r.log)

\* lines 343-349
resolveFallback(ctx, part) == fallbackResult(part, fallbackValue(ctx, part))

\* parts.map(p => resolvePart(ctx, p)) from index i
resolveParts(ctx, parts, i) ==
  IF i > Len(parts) THEN Ok(<<>>, <<>>)
  ELSE consResult(resolvePart(ctx, parts[i]), resolveParts(ctx, parts, i + 1))

valuesOf(fs) == [i \in 1..Len(fs) |-> FormattedValueOf(fs[i])]
stringsOf(fs) == [i \in 1..Len(fs) |-> String(fs[i])]

\* `${key}: ${value}` of a function option (line 362)
optionText(e) == Str(e[1] \o <<":", " ">> \o String(e[2]))

optionTexts(opts) ==
  IF opts = Undef THEN <<>>
  ELSE [i \in 1..Len(Val(opts)) |-> optionText(Val(opts)[i])]

\* `${key}: ${vs}` of a term scope entry (line 375)
scopeText(e, vs) == Str(e[1] \o <<":", " ">> \o vs)

\* lines 369-374: a scope value that is a part is resolved, any other is
\* taken as String(value), which is what resolving it as a literal gives
scopeParts(scope) ==
  IF scope = Undef THEN <<>>
  ELSE [i \in 1..Len(Val(scope)) |->
          IF typeof(Val(scope)[i][2]) = "object" THEN Val(scope)[i][2]
          ELSE Literal(Str(String(Val(scope)[i][2])), Undef)]

\* the parts fallbackValue resolves, in order (lines 355, 359, 366, 369)
fallbackParts(part) ==
  CASE isVariable(part) -> Val(part).var_path
    [] isFunction(part) -> Val(part).args
    [] isTerm(part) -> Val(part).msg_path \o scopeParts(Val(part).scope)
    [] OTHER -> <<>>

\* lines 353-379: the text, vs the values of fallbackParts(part)
fallbackText(part, vs) ==
  CASE isLiteral(part) -> String(Val(part).value)
    [] isVariable(part) -> <<"$">> \o join(vs, <<".">>)
    [] isFunction(part) ->
         Val(part).func \o <<"(">>
         \o join(vs \o optionTexts(Val(part).options), <<",", " ">>)
         \o <<")">>
    [] isTerm(part) ->
         LET t     == Val(part)
             n     == Len(t.msg_path)
             name0 == join(SubSeq(vs, 1, n), <<".">>)
             name1 == IF ~Falsy(t.res_id)
                      THEN String(t.res_id) \o <<":", ":">> \o name0
                      ELSE name0
         IN  IF t.scope = Undef THEN <<"-">> \o name1
             ELSE <<"-">> \o name1 \o <<"(">>
                  \o join([i \in 1..Len(Val(t.scope)) |->
                             scopeText(Val(t.scope)[i], String(vs[n + i]))],
                          <<",", " ">>)
                  \o <<")">>
    [] OTHER -> <<"[object Object]">>

textResult(part, r) ==
  IF Threw(r) THEN r ELSE Ok(Str(fallbackText(part, valuesOf(r.v))), r.log)

\* lines 351-380
fallbackValue(ctx, part) ==
  textResult(part, resolveParts(ctx, fallbackParts(part), 1))

\* args.map(arg => resolveArgument(ctx, arg)) from index i (lines 219, 315)
resolveArguments(ctx, args, i) ==
  IF i > Len(args) THEN Ok(<<>>, <<>>)
  ELSE consResult(resolveArgument(ctx, args[i]),
                  resolveArguments(ctx, args, i + 1))

\* lines 179-182
getExpected(expected, key) ==
  IF Falsy(expected) \/ Tag(expected) \in {"string", "array"} THEN expected
  ELSE Get(expected, key)

\* lines 187-197: the value of one option under the expected type exp
optionValue(ctx, exp, value) ==
  IF isVariable(value) THEN resolveArgument(ctx, value).v
  ELSE IF exp = Str(<<"boolean">>)
  THEN IF value = Str(<<"true">>) THEN Bool(TRUE)
       ELSE IF value = Str(<<"false">>) THEN Bool(FALSE)
       ELSE value
  ELSE IF exp = Str(<<"number">>) THEN Number(value)
  ELSE value

\* lines 199-203 without the type test of line 201
optionMatchesLoose(exp, res) ==
  \/ Tag(exp) = "string"
  \/ /\ Tag(exp) = "array"
     /\ typeof(res) = "string"
     /\ \E i \in 1..Len(Val(exp)) : StrictEq(Val(exp)[i], res)

\* lines 199-203
optionMatches(exp, res) ==
  \/ exp = Str(<<"any">>)
  \/ Tag(exp) = "string" /\ Val(exp) = <<typeof(res)>>
  \/ /\ Tag(exp) = "array"
     /\ typeof(res) = "string"
     /\ \E i \in 1..Len(Val(exp)) : StrictEq(Val(exp)[i], res)

\* lines 186 and 199-204: opt after the option key with value res
keepOption(opt, key, exp, res) ==
  IF Falsy(exp) \/ exp = Str(<<"never">>) THEN opt
  ELSE IF optionMatches(exp, res) THEN Put(opt, key, res)
  ELSE opt

\* lines 184-206: the loop over the entries from index i, opt the result so far
RECURSIVE resolveOptionEntries(_, _, _, _, _)
resolveOptionEntries(ctx, ents, expected, i, opt) ==
  IF i > Len(ents) THEN opt
  ELSE resolveOptionEntries(ctx, ents, expected, i + 1,
         keepOption(opt, ents[i][1], getExpected(expected, ents[i][1]),
                    optionValue(ctx, getExpected(expected, ents[i][1]),
                                ents[i][2])))

\* lines 173-208
resolveOptions(ctx, opts, expected) ==
  IF opts # Undef /\ ~Falsy(expected)
  THEN resolveOptionEntries(ctx, Val(opts), expected, 1, EmptyObj)
  ELSE EmptyObj

\* one invocation of a registered runtime function
Invocation(reg, id, func, opts, args) ==
  [reg |-> reg, id |-> id, func |-> func, opts |-> opts, args |-> args]

\* rf?.options (lines 220, 316)
expectedOptions(registry, func) ==
  IF func \in DOMAIN registry THEN registry[func].options ELSE Undef

\* the invocation made by rf.call(...), none when func is not registered
invocations(registry, reg, fn, fnOpt, fnArgs) ==
  IF Val(fn).func \in DOMAIN registry
  THEN <<Invocation(reg, Val(fn).id, Val(fn).func, fnOpt, fnArgs)>>
  ELSE <<>>

\* line 222 with a call of an unregistered function returning undefined
formatOutcomeNoCall(ctx, fn) ==
  IF Val(fn).func \in DOMAIN ctx.rt.format
  THEN ctx.rt.format[Val(fn).func].call
  ELSE <<"return", Undef>>

\* rf.call(...) at line 222: <<"return", v>> or <<"throw", e>>; calling an
\* unregistered function is a TypeError
formatOutcome(ctx, fn) ==
  IF Val(fn).func \in DOMAIN ctx.rt.format
  THEN ctx.rt.format[Val(fn).func].call
  ELSE <<"throw", TypeError(<<"Cannot read properties">>)>>

\* lines 231-239: the catch block, error the caught value and fb the result
\* of resolveFallback(ctx, fn)
catchFormatError(error, fb, log) ==
  IF Threw(fb) THEN Throw(Val(fb.exc), log \o fb.log)
  ELSE IF Tag(error) \in {"undefined", "null"}
  THEN \* error.name: a TypeError leaves the catch block
       Throw(TypeError(<<"Cannot read properties">>), log \o fb.log)
  ELSE Ok(<<"formatted",
            [Val(fb.v) EXCEPT !.meta =
               addMeta(@, Obj([k \in {<<"error_name">>, <<"error_message">>,
                                      <<"error_stack">>} |->
                                 CASE k = <<"error_name">> ->
                                        Prop(error, <<"name">>)
                                   [] k = <<"error_message">> ->
                                        Prop(error, <<"message">>)
                                   [] OTHER -> Prop(error, <<"stack">>)]))]>>,
          log \o fb.log)

\* lines 222-230, value what the function returned
formatValue(fn, value) ==
  IF isFormatted(value) /\ Val(value).type # "literal"
  THEN IF ~Falsy(Val(fn).meta)
       THEN <<"formatted",
              [Val(value) EXCEPT !.meta = addMeta(@, Val(fn).meta)]>>
       ELSE value
  ELSE Formatted("dynamic", value, Val(fn).meta)

\* lines 219-239 given the arguments, the options, what the call does and
\* the fallback of the catch block
formatResult(ctx, fn, fnArgs, fnOpt, r, fb) ==
  IF Threw(fnArgs) THEN fnArgs
  ELSE IF Tag(r) = "throw"
  THEN catchFormatError(Val(r), fb,
         invocations(ctx.rt.format, "format", fn, fnOpt, fnArgs.v))
  ELSE Ok(formatValue(fn, Val(r)),
          invocations(ctx.rt.format, "format", fn, fnOpt, fnArgs.v))

\* lines 210-240
resolveFormatFunction(ctx, fn) ==
  formatResult(ctx, fn,
               resolveArguments(ctx, Val(fn).args, 1),
               resolveOptions(ctx, Val(fn).options,
                              expectedOptions(ctx.rt.format, Val(fn).func)),
               formatOutcome(ctx, fn),
               resolveFallback(ctx, fn))

\* lines 147-162, for a part that is not a term
resolvePart(ctx, part) ==
  CASE isLiteral(part) ->
         Ok(Formatted("literal", Val(part).value, Val(part).meta), <<>>)
    [] isVariable(part) -> resolveVariable(ctx, part)
    [] isFunction(part) -> resolveFormatFunction(ctx, part)
    [] OTHER -> Throw(Error(<<"Error">>, <<"Unsupported part">>), <<>>)


(***************************************************************************)
(* Selection (format-message.ts 264-322).  A selector is [value, default], *)
(* a case is [key, value]: key one literal value per selector, value the   *)
(* parts of the variant's pattern.                                         *)
(***************************************************************************)
\* the plural rule of a registered `plural` function: its category
PluralRule(n) == IF n = Num(1) THEN Str(<<"one">>) ELSE Str(<<"other">>)

\* fn.call(locales, opt, ...args): <<"return", v>> or <<"throw", e>>
invoke(rf, args) ==
  IF Tag(rf.call) = "plural"
  THEN <<"return", PluralRule(IF args = <<>> THEN Undef ELSE args[1])>>
  ELSE rf.call

\* fn.call(...) at line 318; calling an unregistered function is a TypeError
selectOutcome(ctx, fn, fnArgs) ==
  IF Val(fn).func \in DOMAIN ctx.rt.select
  THEN invoke(ctx.rt.select[Val(fn).func], fnArgs)
  ELSE <<"throw", TypeError(<<"Cannot read properties">>)>>

\* line 320 with the argument passed on as it is
selectFallbackRaw(fnArgs) ==
  IF fnArgs = <<>> THEN Undef ELSE fnArgs[1]

\* line 320: fnArgs[0] is undefined when there is no argument
selectFallback(fnArgs) ==
  IF fnArgs = <<>> THEN Str(String(Undef))
  ELSE IF isLiteral(fnArgs[1]) THEN fnArgs[1]
  ELSE Str(String(fnArgs[1]))

\* lines 315-321 given the arguments and the options
selectFunctionResult(ctx, fn, fnArgs, fnOpt) ==
  IF Threw(fnArgs) THEN fnArgs
  ELSE Ok(IF Tag(selectOutcome(ctx, fn, fnArgs.v)) = "throw"
          THEN selectFallback(fnArgs.v)
          ELSE Val(selectOutcome(ctx, fn, fnArgs.v)),
          invocations(ctx.rt.select, "select", fn, fnOpt, fnArgs.v))

\* lines 310-322
resolveSelectFunction(ctx, fn) ==
  selectFunctionResult(ctx, fn,
                       resolveArguments(ctx, Val(fn).args, 1),
                       resolveOptions(ctx, Val(fn).options,
                                      expectedOptions(ctx.rt.select,
                                                      Val(fn).func)))

\* r instanceof Formatted ? r.valueOf() : r (lines 273, 280)
rawValue(r) == IF isFormatted(r) THEN FormattedValueOf(r) ELSE r

\* line 277
pluralRegistered(ctx) == <<"plural">> \in DOMAIN ctx.rt.select

\* lines 275-285 without the re-run of line 279: a number is kept as it is
selectorValueRaw(ctx, v) ==
  IF typeof(v) = "number" \/ typeof(v) = "string" \/ Tag(v) = "array" THEN v
  ELSE Str(String(v))

\* lines 275-285: the value matched for the selector value v
selectorValue(ctx, v) ==
  IF typeof(v) = "number"
  THEN IF pluralRegistered(ctx)
       THEN IF Tag(invoke(ctx.rt.select[<<"plural">>], <<v>>)) = "throw"
            THEN v
            ELSE rawValue(Val(invoke(ctx.rt.select[<<"plural">>], <<v>>)))
       ELSE v
  ELSE IF typeof(v) = "string" \/ Tag(v) = "array" THEN v
  ELSE Str(String(v))

\* line 279: the invocation of plural for the selector value v
pluralInvocations(ctx, v) ==
  IF typeof(v) = "number" /\ pluralRegistered(ctx)
  THEN <<Invocation("select", 0, <<"plural">>, Undef, <<v>>)>>
  ELSE <<>>

\* lines 273-286 given r, the result of lines 270-272
selectorResult(ctx, s, r) ==
  IF Threw(r) THEN r
  ELSE Ok([value |-> selectorValue(ctx, rawValue(r.v)),
           default |-> IF Falsy(s.default) THEN Str(<<"other">>)
                       ELSE s.default],
          r.log \o pluralInvocations(ctx, rawValue(r.v)))

\* lines 270-286: one selector resolved to [value, default]
resolveSelector(ctx, s) ==
  selectorResult(ctx, s,
                 IF isFunction(s.value)
                 THEN resolveSelectFunction(ctx, s.value)
                 ELSE resolvePart(ctx, s.value))

\* line 269: select.select.map(...) from index i
RECURSIVE resolveSelectors(_, _, _)
resolveSelectors(ctx, sels, i) ==
  IF i > Len(sels) THEN Ok(<<>>, <<>>)
  ELSE consResult(resolveSelector(ctx, sels[i]),
                  resolveSelectors(ctx, sels, i + 1))

\* lines 291-298
keyMatches(key, res) ==
  \A i \in 1..Len(key) :
    \/ StrictEq(key[i], res[i].default)
    \/ StrictEq(key[i], res[i].value)
    \/ /\ Tag(res[i].value) = "array"
       /\ \E j \in 1..Len(Val(res[i].value)) :
            StrictEq(Val(res[i].value)[j], key[i])

\* the loop of lines 289-306 keeping the last matching case
lastMatch(cases, res, i) ==
  IF \E j \in i..Len(cases) : keyMatches(cases[j].key, res)
  THEN CHOOSE j \in i..Len(cases) :
         /\ keyMatches(cases[j].key, res)
         /\ \A k \in (j + 1)..Len(cases) : ~keyMatches(cases[k].key, res)
  ELSE 0

\* lines 289-306: the index of the case returned, scanning from i; 0: none
RECURSIVE firstMatch(_, _, _)
firstMatch(cases, res, i) ==
  IF i > Len(cases) THEN 0
  ELSE IF keyMatches(cases[i].key, res) THEN i
  ELSE firstMatch(cases, res, i + 1)

\* getFormattedSelectMeta(select, res, key): diagnostics when the chosen
\* key is not an exact match of every resolved value, else nothing
getFormattedSelectMeta(sel, res, key) ==
  IF \A i \in 1..Len(key) : StrictEq(key[i], res[i].value) THEN Null
  ELSE Obj([k \in {<<"selectResult">>} |-> Str(<<"fallback">>)])

\* lines 299-307: [pattern, fsm] for the case of index m, fsm the meta
\* handed to onMeta or null
caseResult(sel, res, m) ==
  IF m = 0 THEN [pattern |-> <<>>, fsm |-> Null]
  ELSE [pattern |-> sel.cases[m].value,
        fsm |-> getFormattedSelectMeta(sel, res, sel.cases[m].key)]

\* lines 289-308 given res, the resolved selectors
selectResult(sel, res) ==
  IF Threw(res) THEN res
  ELSE Ok(caseResult(sel, res.v, firstMatch(sel.cases, res.v, 1)), res.log)

\* lines 264-308
resolveSelect(ctx, select) ==
  selectResult(Val(select), resolveSelectors(ctx, Val(select).select, 1))

(***************************************************************************)
(* Terms and formatToParts (format-message.ts 127-145, 242-257) as a       *)
(* machine of activations.  Every activation of formatToParts is a frame:  *)
(* scope is the index in heap of ctx.scope, msg the message, term the term *)
(* that called it (Undef for the caller's own call), pattern and fsm the   *)
(* results of lines 131-134, res the parts resolved so far by line 135.    *)
(***************************************************************************)
Frame(ref, m, term) ==
  [scope |-> ref, msg |-> m, term |-> term, phase |-> "enter",
   pattern |-> <<>>, res |-> <<>>, fsm |-> Null]

Top == stack[Len(stack)]
Ctx == [scope |-> heap[Top.scope], rt |-> runtime]
SetTop(f) == [stack EXCEPT ![Len(stack)] = f]

\* the ids of the function occurrences among parts, in order
RECURSIVE functionIds(_)
functionIds(parts) ==
  IF parts = <<>> THEN <<>>
  ELSE (IF isFunction(Head(parts)) THEN <<Val(Head(parts)).id>> ELSE <<>>)
       \o functionIds(Tail(parts))

\* the message the context's getMessage finds: one local message, m
TargetMessage ==
  Message(Pattern(<<Variable(<<Literal(Str(<<"n">>), Undef)>>, Undef),
                    Variable(<<Literal(Str(<<"c">>), Undef)>>, Undef)>>),
          Undef)

\* a term naming the local message nm
TermTo(nm) == Term(Undef, <<Literal(Str(nm), Undef)>>, Undef, Undef)

\* the local messages: m, t whose pattern refers to m, p and q whose patterns
\* refer to each other, s whose pattern refers to s
MessageNames == {<<"m">>, <<"t">>, <<"p">>, <<"q">>, <<"s">>}

LocalMessage(nm) ==
  CASE nm = <<"m">> -> TargetMessage
    [] nm = <<"t">> ->
         Message(Pattern(<<Literal(Str(<<"x">>), Undef), TermTo(<<"m">>)>>),
                 Undef)
    [] nm = <<"p">> -> Message(Pattern(<<TermTo(<<"q">>)>>), Undef)
    [] nm = <<"q">> ->
         Message(Pattern(<<Literal(Str(<<"x">>), Undef), TermTo(<<"p">>)>>),
                 Undef)
    [] OTHER -> Message(Pattern(<<TermTo(<<"s">>)>>), Undef)

\* ctx.getMessage(res_id, strPath) (line 248)
getMessage(res_id, strPath) ==
  IF Falsy(res_id) /\ Len(strPath) = 1 /\ strPath[1] \in MessageNames
  THEN LocalMessage(strPath[1])
  ELSE Undef

\* the depth of nested formatToParts activations explored
MaxDepth == 4

\* Object.assign(target, source): null and undefined sources are skipped
assign(target, source) ==
  IF Tag(source) \in {"undefined", "null"} THEN target
  ELSE Obj([k \in Keys(target) \cup Keys(source) |->
              IF k \in Keys(source) THEN Val(source)[k] ELSE Val(target)[k]])

\* lines 252-254 with ctx.scope itself as the target of Object.assign
extendScopeInPlace(h, ref, opt) ==
  [heap |-> [h EXCEPT ![ref] = assign(h[ref], opt)], ref |-> ref]

\* lines 252-254: Object.assign({}, ctx.scope, opt) is a new object, and
\* extendContext gives the context that has it as scope
extendScope(h, ref, opt) ==
  [heap |-> Append(h, assign(assign(EmptyObj, h[ref]), opt)),
   ref |-> Len(h) + 1]

\* an exception leaves formatToParts
Raise(e, log, ids) ==
  /\ out' = e
  /\ rpc' = "raised"
  /\ stack' = <<>>
  /\ calls' = calls \o log
  /\ visits' = visits \o ids
  /\ UNCHANGED <<message, callerScope, runtime, heap>>

\* line 133 done: r is the result of resolveSelect
Selected(r, ids) ==
  IF Threw(r) THEN Raise(Val(r.exc), r.log, ids)
  ELSE /\ stack' = SetTop([Top EXCEPT !.phase = "parts",
                                      !.pattern = r.v.pattern,
                                      !.fsm = r.v.fsm])
       /\ calls' = calls \o r.log
       /\ visits' = visits \o ids
       /\ UNCHANGED <<message, callerScope, runtime, heap, out, rpc>>

selectorParts(select) ==
  [i \in 1..Len(Val(select).select) |-> Val(select).select[i].value]

\* lines 131-133: the value of the message is a select
EnterSelect ==
  /\ rpc = "run" /\ Top.phase = "enter" /\ isSelect(Val(Top.msg).value)
  /\ Selected(resolveSelect(Ctx, Val(Top.msg).value),
              functionIds(selectorParts(Val(Top.msg).value)))
  /\ UNCHANGED <<pvars, mvars, ovars, gvars>>

\* lines 132-134: the value of the message is a pattern
EnterPattern ==
  /\ rpc = "run" /\ Top.phase = "enter" /\ ~isSelect(Val(Top.msg).value)
  /\ stack' = SetTop([Top EXCEPT !.phase = "parts",
                                 !.pattern = Val(Val(Top.msg).value)])
  /\ UNCHANGED <<message, callerScope, runtime, heap, calls, visits, out,
                 rpc>>
  /\ UNCHANGED <<pvars, mvars, ovars, gvars>>

\* the part line 135 resolves next
MoreParts ==
  rpc = "run" /\ Top.phase = "parts" /\ Len(Top.res) < Len(Top.pattern)
NextPart == Top.pattern[Len(Top.res) + 1]

\* line 135: r is the result of resolvePart for the next part
Resolved(r, ids) ==
  IF Threw(r) THEN Raise(Val(r.exc), r.log, ids)
  ELSE /\ stack' = SetTop([Top EXCEPT !.res = Append(@, r.v)])
       /\ calls' = calls \o r.log
       /\ visits' = visits \o ids
       /\ UNCHANGED <<message, callerScope, runtime, heap, out, rpc>>

\* line 135 for a literal, a variable or a function (lines 155-158)
ResolvePart ==
  /\ MoreParts /\ ~isTerm(NextPart)
  /\ Resolved(resolvePart(Ctx, NextPart), functionIds(<<NextPart>>))
  /\ UNCHANGED <<pvars, mvars, ovars, gvars>>

\* r after the invocations of log
afterLog(log, r) == [r EXCEPT !.log = log \o @]

\* lines 248-249: path is the result of line 247, fb of resolveFallback
TermNotFound(term, path, fb) ==
  IF Threw(path)
  THEN Raise(Val(path.exc), path.log, functionIds(Val(term).msg_path))
  ELSE /\ getMessage(Val(term).res_id, stringsOf(path.v)) = Undef
       /\ Resolved(afterLog(path.log, fb), functionIds(Val(term).msg_path))

\* lines 246-249: a term whose message is not found
ResolveTermFallback ==
  /\ MoreParts /\ isTerm(NextPart)
  /\ TermNotFound(NextPart, resolveParts(Ctx, Val(NextPart).msg_path, 1),
                  resolveFallback(Ctx, NextPart))
  /\ UNCHANGED <<pvars, mvars, ovars, gvars>>

\* lines 250-255: the heap and the scope of the context the message of the
\* term is resolved in
termScope(term, h, ref, opt) ==
  IF ~Falsy(Val(term).res_id) \/ Val(term).scope # Undef
  THEN extendScope(h, ref, IF Val(term).scope # Undef THEN opt ELSE Null)
  ELSE [heap |-> h, ref |-> ref]

\* lines 248-256 with a message that is already being resolved not entered
\* again: the term resolves to an empty message
TermFoundOnce(term, path, ext) ==
  /\ ~Threw(path)
  /\ getMessage(Val(term).res_id, stringsOf(path.v)) # Undef
  /\ IF \E j \in DOMAIN stack :
          stack[j].msg = getMessage(Val(term).res_id, stringsOf(path.v))
     THEN /\ stack' = SetTop([Top EXCEPT !.res =
                                Append(@, FormattedMessage(<<>>,
                                                           Val(term).meta))])
          /\ heap' = heap
     ELSE /\ heap' = ext.heap
          /\ stack' = Append(stack,
                             Frame(ext.ref,
                                   getMessage(Val(term).res_id,
                                              stringsOf(path.v)),
                                   term))
  /\ calls' = calls \o path.log
  /\ visits' = visits \o functionIds(Val(term).msg_path)
  /\ UNCHANGED <<message, callerScope, runtime, out, rpc>>

\* lines 248-256: path is the result of line 247, ext of termScope
TermFound(term, path, ext) ==
  /\ ~Threw(path)
  /\ getMessage(Val(term).res_id, stringsOf(path.v)) # Undef
  /\ heap' = ext.heap
  /\ stack' = Append(stack,
                     Frame(ext.ref,
                           getMessage(Val(term).res_id, stringsOf(path.v)),
                           term))
  /\ calls' = calls \o path.log
  /\ visits' = visits \o functionIds(Val(term).msg_path)
  /\ UNCHANGED <<message, callerScope, runtime, out, rpc>>

\* lines 246-256: a term whose message is found; formatToParts is entered
\* for it
ResolveTermCall ==
  /\ MoreParts /\ isTerm(NextPart)
  /\ Len(stack) < MaxDepth
  /\ TermFound(NextPart, resolveParts(Ctx, Val(NextPart).msg_path, 1),
               termScope(NextPart, heap, Top.scope,
                         resolveOptions(Ctx, Val(NextPart).scope,
                                        Str(<<"any">>))))
  /\ UNCHANGED <<pvars, mvars, ovars, gvars>>

\* lines 137-142: the FormattedMessage wrapping res
wrapMessage(f) ==
  IF ~Falsy(f.fsm)
  THEN <<"formatted",
         [Val(FormattedMessage(f.res, Val(f.msg).meta)) EXCEPT
            !.meta = addMeta(@, f.fsm)]>>
  ELSE FormattedMessage(f.res, Val(f.msg).meta)

\* lines 136-144: what formatToParts returns from the frame f
returnedParts(f) ==
  IF ~Falsy(Val(f.msg).meta) \/ ~Falsy(f.fsm) THEN <<wrapMessage(f)>>
  ELSE f.res

AllResolved ==
  rpc = "run" /\ Top.phase = "parts" /\ Len(Top.res) = Len(Top.pattern)

\* lines 136-144 in the caller's own activation
Return ==
  /\ AllResolved /\ Len(stack) = 1
  /\ out' = <<"array", returnedParts(Top)>>
  /\ rpc' = "done"
  /\ stack' = <<>>
  /\ UNCHANGED <<message, callerScope, runtime, heap, calls, visits>>
  /\ UNCHANGED <<pvars, mvars, ovars, gvars>>

\* lines 136-144 in a term's activation, then line 256 in resolveTerm
ReturnToTerm ==
  /\ AllResolved /\ Len(stack) > 1
  /\ stack' = [i \in 1..(Len(stack) - 1) |->
                 IF i = Len(stack) - 1
                 THEN [stack[i] EXCEPT !.res =
                         Append(@, FormattedMessage(returnedParts(Top),
                                                    Val(Top.term).meta))]
                 ELSE stack[i]]
  /\ UNCHANGED <<message, callerScope, runtime, heap, calls, visits, out,
                 rpc>>
  /\ UNCHANGED <<pvars, mvars, ovars, gvars>>

FNext ==
  \/ EnterSelect
  \/ EnterPattern
  \/ ResolvePart
  \/ ResolveTermFallback
  \/ ResolveTermCall
  \/ Return
  \/ ReturnToTerm


(***************************************************************************)
(* The calls of formatToParts explored (specification SpecFormat)          *)
(***************************************************************************)
MaxParts == 2
MaxCases == 2

Lit(text) == Literal(Str(text), Undef)
Var(nm) == Variable(<<Lit(nm)>>, Undef)
Fields(pairs) == [k \in {p[1] : p \in pairs} |->
                    (CHOOSE p \in pairs : p[1] = k)[2]]

\* caller scopes
Scopes ==
  { EmptyObj,
    Obj(Fields({<<<<"a">>, EmptyObj>>, <<<<"n">>, Num(1)>>})),
    Obj(Fields({<<<<"a">>, Obj(Fields({<<<<"b">>, Str(<<"x">>)>>}))>>,
                <<<<"n">>, Num(2)>>, <<<<"c">>, Str(<<"b">>)>>})),
    Obj(Fields({<<<<"a">>, Str(<<"s">>)>>, <<<<"n">>, Num(0)>>})) }

\* the parts of the patterns
VarAB == Variable(<<Lit(<<"a">>), Lit(<<"b">>)>>, Undef)
VarAC == Variable(<<Lit(<<"a">>), Var(<<"c">>)>>, Undef)
FunF ==
  Function(1, <<"f">>, <<Var(<<"n">>)>>,
           Entries(<< <<<<"k">>, Str(<<"1">>)>> >>), Undef)
\* a term with a scope override, its message found
TermM ==
  Term(Undef, <<Lit(<<"m">>)>>,
       Entries(<< <<<<"n">>, Num(5)>>, <<<<"c">>, Var(<<"a">>)>> >>), Undef)
\* a term whose message path is computed by a function
TermF == Term(Undef, <<Function(2, <<"f">>, <<>>, Undef, Undef)>>, Undef, Undef)
\* a term of another resource, its message not found
TermG == Term(Str(<<"r">>), <<Lit(<<"g">>)>>, Undef, Undef)

Parts == {Lit(<<"x">>), VarAB, VarAC, Var(<<"n">>), FunF, TermM, TermF, TermG}

Patterns == UNION {[1..n -> Parts] : n \in 1..MaxParts}

PatternMessages ==
  {Message(Pattern(p), Undef) : p \in Patterns}
  \cup {Message(Pattern(<<Lit(<<"x">>)>>),
                Obj(Fields({<<<<"k">>, Str(<<"v">>)>>})))}

\* what the registered format function f does when called
FormatCalls ==
  { <<"return", Str(<<"m">>)>>,
    <<"return", Formatted("dynamic", Str(<<"q">>),
                          Obj(Fields({<<<<"k">>, Str(<<"v">>)>>})))>>,
    <<"throw", Error(<<"Error">>, <<"bad">>)>>,
    <<"throw", Null>>,
    <<"throw", Str(<<"boom">>)>> }

FormatRuntimes ==
  {[format |-> <<>>, select |-> <<>>]}
  \cup {[format |-> [nm \in {<<"f">>} |->
                       [call |-> c, options |-> Str(<<"any">>)]],
         select |-> <<>>] : c \in FormatCalls}

\* selectors: a variable, a function of a variable, a function of a literal
\* number, a literal with its own default key
Selectors ==
  { [value |-> Var(<<"n">>), default |-> Undef],
    [value |-> Function(3, <<"sel">>, <<Var(<<"n">>)>>, Undef, Undef),
     default |-> Undef],
    [value |-> Function(4, <<"sel">>, <<Literal(Num(1), Undef)>>, Undef,
                        Undef),
     default |-> Undef],
    [value |-> Lit(<<"one">>), default |-> Str(<<"1">>)] }

Keys1 ==
  {Str(<<"one">>), Str(<<"other">>), Str(<<"zero">>), Str(<<"1">>), Num(1)}
Keys2 == {Str(<<"one">>), Str(<<"other">>)}

\* the cases of a select over the key tuples ks: case j has the pattern vj
CaseLists(ks) ==
  UNION {{[j \in 1..n |-> [key |-> f[j],
                           value |-> <<Lit(<<"v">> \o NumStr(j))>>]] :
            f \in [1..n -> ks]} : n \in 0..MaxCases}

SelectMessages ==
  {Message(Select(<<s>>, cs), Undef) :
     s \in Selectors, cs \in CaseLists({<<k>> : k \in Keys1})}
  \cup
  {Message(Select(<<[value |-> Var(<<"n">>), default |-> Undef],
                    [value |-> Function(3, <<"sel">>, <<Var(<<"n">>)>>,
                                        Undef, Undef),
                     default |-> Undef]>>, cs), Undef) :
     cs \in CaseLists(Keys2 \X Keys2)}

\* what the registered select functions do when called
SelectCalls ==
  { <<"return", Str(<<"one">>)>>,
    <<"return", <<"array", <<Str(<<"1">>), Str(<<"one">>)>> >> >>,
    <<"return", Num(1)>>,
    <<"throw", Error(<<"Error">>, <<"bad">>)>> }
PluralCalls == { <<"plural", 0>>, <<"throw", Null>> }

SelectRegistries ==
  UNION {{[nm \in names |->
             [call |-> IF nm = <<"sel">> THEN c ELSE p, options |-> Undef]] :
            c \in SelectCalls, p \in PluralCalls} :
           names \in SUBSET {<<"sel">>, <<"plural">>}}

SelectRuntimes == {[format |-> <<>>, select |-> r] : r \in SelectRegistries}

FInit ==
  /\ \/ message \in PatternMessages /\ runtime \in FormatRuntimes
     \/ message \in SelectMessages /\ runtime \in SelectRuntimes
  /\ callerScope \in Scopes
  /\ heap = <<callerScope>>
  /\ stack = <<Frame(1, message, Undef)>>
  /\ calls = <<>>
  /\ visits = <<>>
  /\ out = Undef
  /\ rpc = "run"
  /\ PIdle /\ MIdle /\ OIdle /\ GIdle

SpecFormat == FInit /\ [][FNext]_vars

(***************************************************************************)
(* Claims about the resolvers (checked under SpecFormat)                   *)
(***************************************************************************)
Running == rpc \in {"run", "done", "raised"}
\* the context of the caller's own call
Ctx0 == [scope |-> callerScope, rt |-> runtime]
FrameCtx(j) == [scope |-> heap[stack[j].scope], rt |-> runtime]
Count(seq, P(_)) == Cardinality({i \in DOMAIN seq : P(seq[i])})

FormatThrows ==
  /\ <<"f">> \in DOMAIN runtime.format
  /\ Tag(runtime.format[<<"f">>].call) = "throw"

\* the message is a pattern of literals, variables and functions, with a
\* function among them
FunctionPattern ==
  /\ ~isSelect(Val(message).value)
  /\ \A i \in DOMAIN Val(Val(message).value) :
       ~isTerm(Val(Val(message).value)[i])
  /\ \E i \in DOMAIN Val(Val(message).value) :
       isFunction(Val(Val(message).value)[i])

\* C1: when the registered format function raises, whatever it raises,
\* formatToParts does not raise, the function part is a Fallback carrying
\* error_name and error_message, and the literal and variable parts of the
\* pattern resolve as they do on their own.
C1_FunctionFailureContained ==
  (Running /\ FormatThrows /\ FunctionPattern) =>
    /\ rpc # "raised"
    /\ \A j \in DOMAIN stack : \A i \in DOMAIN stack[j].res :
         LET part == stack[j].pattern[i]
             r    == stack[j].res[i]
         IN  /\ isFunction(part) =>
                  /\ Val(r).type = "fallback"
                  /\ Tag(Val(r).meta) = "object"
                  /\ {<<"error_name">>, <<"error_message">>}
                       \subseteq Keys(Val(r).meta)
             /\ (isLiteral(part) \/ isVariable(part)) =>
                  r = resolvePart(FrameCtx(j), part).v

\* the key tuple matches the resolved selectors: every key equals the
\* selector's default key, or its value, or is a member of its array value
C5_Matches(key, res) ==
  \A i \in DOMAIN key :
    \/ key[i] = res[i].default
    \/ key[i] = res[i].value
    \/ /\ Tag(res[i].value) = "array"
       /\ key[i] \in {Val(res[i].value)[j] : j \in DOMAIN Val(res[i].value)}

\* the pattern of the first matching case in declaration order, or none
C5_FirstMatching(cases, res) ==
  LET M == {j \in DOMAIN cases : C5_Matches(cases[j].key, res)} IN
  IF M = {} THEN <<>>
  ELSE cases[CHOOSE j \in M : \A k \in M : j <= k].value

SelectCall == isSelect(Val(message).value)
\* resolveSelect has returned to the caller's formatToParts
Selected1 == stack # <<>> /\ stack[1].phase = "parts"

\* C5: resolveSelect returns the pattern of the first case, in declaration
\* order, whose every key equals the selector's default key or resolved value
\* or is a member of its resolved array value; with no matching case it
\* returns the empty sequence; nothing is raised.
C5_FirstMatchWins ==
  (Running /\ SelectCall) =>
    /\ rpc # "raised"
    /\ Selected1 =>
         stack[1].pattern =
           C5_FirstMatching(Val(Val(message).value).cases,
                            resolveSelectors(Ctx0,
                              Val(Val(message).value).select, 1).v)

\* two cases match and the first one is returned
C5_Witness ==
  /\ rpc = "run" /\ SelectCall /\ Selected1
  /\ Len(Val(Val(message).value).cases) = 2
  /\ \A j \in 1..2 :
       C5_Matches(Val(Val(message).value).cases[j].key,
                  resolveSelectors(Ctx0, Val(Val(message).value).select, 1).v)
  /\ Val(Val(message).value).cases[1].key = <<Str(<<"one">>)>>
  /\ stack[1].pattern = Val(Val(message).value).cases[1].value

\* a value cannot be indexed: it is absent, null or not an object
C6_NotIndexable(v) == Tag(v) \in {"undefined", "null"} \/ typeof(v) # "object"

\* the value reached after the first i segments of path
RECURSIVE C6_Reached(_, _, _)
C6_Reached(ctx, path, i) ==
  IF i = 0 THEN ctx.scope
  ELSE IF C6_NotIndexable(C6_Reached(ctx, path, i - 1)) THEN Undef
  ELSE Index(C6_Reached(ctx, path, i - 1), resolveArgument(ctx, path[i]).v)

\* `$` and the dot-joined resolved segments
C6_Text(ctx, path) ==
  <<"$">> \o join([i \in DOMAIN path |-> resolveArgument(ctx, path[i]).v],
                  <<".">>)

C6_Expected(ctx, part) ==
  LET path == Val(part).var_path
      v    == IF path = <<>> THEN Undef ELSE C6_Reached(ctx, path, Len(path))
  IN  IF v = Undef
      THEN Formatted("fallback", Str(C6_Text(ctx, path)), Val(part).meta)
      ELSE Formatted("dynamic", v, Val(part).meta)

\* C6: a variable resolves to a Fallback with the text `$` and the dot-joined
\* resolved segments when a value reached before the last segment is absent
\* or not indexable or the final lookup is absent, and to a Dynamic wrapping
\* the value found otherwise; resolving it never raises.
C6_VariableFallback ==
  Running =>
    /\ \A j \in DOMAIN stack : \A i \in DOMAIN stack[j].res :
         isVariable(stack[j].pattern[i]) =>
           stack[j].res[i] = C6_Expected(FrameCtx(j), stack[j].pattern[i])
    /\ (MoreParts /\ isVariable(NextPart)) =>
         ~Threw(resolvePart(Ctx, NextPart))

\* path [a, b] against the scope {a: {}, n: 1} gave the Fallback $a.b
C6_Witness ==
  /\ rpc = "run" /\ Len(stack) = 1 /\ Len(stack[1].res) = 1
  /\ stack[1].pattern[1] = VarAB
  /\ Get(callerScope, <<"a">>) = EmptyObj
  /\ Val(stack[1].res[1]).type = "fallback"
  /\ Val(stack[1].res[1]).value = Str(<<"$", "a", ".", "b">>)

\* the function occurrence id names a registered function
Registered(id) ==
  IF id \in {1, 2} THEN <<"f">> \in DOMAIN runtime.format
  ELSE <<"sel">> \in DOMAIN runtime.select

\* C7: every resolved occurrence of a function part whose function is
\* registered causes exactly one invocation of it, also when the occurrence
\* or its enclosing term is rendered as a Fallback.
C7_OneInvocationPerOccurrence ==
  Running =>
    \A id \in 1..4 :
      Count(calls, LAMBDA c : c.id = id) =
        IF Registered(id) THEN Count(visits, LAMBDA v : v = id) ELSE 0

C8_OverrideKeys(scope) == {Val(scope)[i][1] : i \in DOMAIN Val(scope)}

\* the override value of key k, a variable being resolved in the caller's
\* scope
C8_OverrideValue(caller, scope, k) ==
  LET e == Val(scope)[CHOOSE i \in DOMAIN Val(scope) : Val(scope)[i][1] = k]
  IN  IF isVariable(e[2])
      THEN resolveArgument([scope |-> caller, rt |-> runtime], e[2]).v
      ELSE e[2]

\* C8: the message of a term with a scope override is resolved against a
\* scope in which every overridden key has the override value and every
\* other key has the caller's value; the caller's scope object is never
\* changed, and the caller's variables resolve against the original
\* bindings.
C8_ScopeOverrideLayered ==
  Running =>
    /\ heap[1] = callerScope
    /\ \A j \in DOMAIN stack :
         j > 1 /\ Val(stack[j].term).scope # Undef =>
           LET caller == heap[stack[j - 1].scope]
               target == heap[stack[j].scope]
               scope  == Val(stack[j].term).scope
           IN  \A k \in Keys(caller) \cup Keys(target)
                        \cup C8_OverrideKeys(scope) :
                 Get(target, k) =
                   IF k \in C8_OverrideKeys(scope)
                   THEN C8_OverrideValue(caller, scope, k)
                   ELSE Get(caller, k)
    /\ stack # <<>> =>
         \A i \in DOMAIN stack[1].res :
           isVariable(stack[1].pattern[i]) =>
             stack[1].res[i] = resolvePart(Ctx0, stack[1].pattern[i]).v

\* the message of the term saw n = 5 while the caller's n is 1, and the
\* caller's variable n resolved after the term gave 1
C8_Witness ==
  /\ rpc = "run" /\ Len(stack) = 1 /\ Len(stack[1].res) = 2
  /\ stack[1].pattern = <<TermM, Var(<<"n">>)>>
  /\ Get(callerScope, <<"n">>) = Num(1)
  /\ Len(heap) = 2 /\ Get(heap[2], <<"n">>) = Num(5)
  /\ FormattedValueOf(Val(Val(stack[1].res[1]).value)[1]) = Num(5)
  /\ FormattedValueOf(stack[1].res[2]) = Num(1)

\* the select function of the function selectors raises or is not registered
SelectFails ==
  \/ <<"sel">> \notin DOMAIN runtime.select
  \/ Tag(runtime.select[<<"sel">>].call) = "throw"

\* the first resolved argument as a literal, or else its string form
C10_FirstArgument(ctx, fn) ==
  LET a == resolveArgument(ctx, Val(fn).args[1]).v IN
  IF isLiteral(a) THEN a ELSE Str(String(a))

\* the resolved selectors, a function selector having its first argument
\* as value
C10_Selectors(ctx, sels) ==
  [i \in DOMAIN sels |->
     IF isFunction(sels[i].value) /\ Val(sels[i].value).args # <<>>
     THEN [value |-> C10_FirstArgument(ctx, sels[i].value),
           default |-> resolveSelector(ctx, sels[i]).v.default]
     ELSE resolveSelector(ctx, sels[i]).v]

\* C10: when the select function of a function selector raises or is not
\* registered, resolveSelect does not raise, the selector's value is the
\* first resolved argument (as a literal, or else its string form) and the
\* cases are matched against that value.
C10_SelectFailureFallsBack ==
  (Running /\ SelectCall /\ SelectFails) =>
    /\ rpc # "raised"
    /\ Selected1 =>
         stack[1].pattern =
           C5_FirstMatching(Val(Val(message).value).cases,
                            C10_Selectors(Ctx0, Val(Val(message).value).select))

\* the select function raised, the argument n is 1 and the case of key "1"
\* was returned
C10_Witness ==
  /\ rpc = "run" /\ SelectCall /\ Selected1
  /\ <<"sel">> \in DOMAIN runtime.select
  /\ Tag(runtime.select[<<"sel">>].call) = "throw"
  /\ Get(callerScope, <<"n">>) = Num(1)
  /\ Len(Val(Val(message).value).select) = 1
  /\ Val(Val(message).value).select[1].value =
       Function(3, <<"sel">>, <<Var(<<"n">>)>>, Undef, Undef)
  /\ Len(Val(Val(message).value).cases) = 1
  /\ Val(Val(message).value).cases[1].key = <<Str(<<"1">>)>>
  /\ stack[1].pattern = Val(Val(message).value).cases[1].value

\* the value of a selector before lines 274-285: the result of lines 270-273
C11_Raw(ctx, s) ==
  rawValue((IF isFunction(s.value) THEN resolveSelectFunction(ctx, s.value)
            ELSE resolvePart(ctx, s.value)).v)

PluralRegistered == <<"plural">> \in DOMAIN runtime.select

\* the category the registered plural gives for the number v, or v itself
\* when its call raises
C11_Category(v) ==
  IF Tag(runtime.select[<<"plural">>].call) = "throw" THEN v
  ELSE IF v = Num(1) THEN Str(<<"one">>) ELSE Str(<<"other">>)

\* the resolved selectors, a selector that resolved to a number having the
\* category of the number as value
C11_Selectors(ctx, sels) ==
  [i \in DOMAIN sels |->
     IF typeof(C11_Raw(ctx, sels[i])) = "number"
     THEN [value |-> C11_Category(C11_Raw(ctx, sels[i])),
           default |-> resolveSelector(ctx, sels[i]).v.default]
     ELSE resolveSelector(ctx, sels[i]).v]

\* C11: when a selector resolves to a number and a plural select function is
\* registered, the cases are matched against the result of calling plural on
\* that number, or against the number itself when that call raises, and
\* plural is called once with the number.
C11_PluralRerun ==
  (Running /\ SelectCall /\ PluralRegistered) =>
    /\ rpc # "raised"
    /\ Selected1 =>
         /\ stack[1].pattern =
              C5_FirstMatching(Val(Val(message).value).cases,
                               C11_Selectors(Ctx0,
                                             Val(Val(message).value).select))
         /\ \A i \in DOMAIN Val(Val(message).value).select :
              typeof(C11_Raw(Ctx0, Val(Val(message).value).select[i]))
                = "number" =>
                \E c \in DOMAIN calls :
                  /\ calls[c].func = <<"plural">>
                  /\ calls[c].args =
                       <<C11_Raw(Ctx0, Val(Val(message).value).select[i])>>

\* the selector n is 0, plural gives it the category other, and of the cases
\* (zero -> v1), (other -> v2) the second was returned
C11_Witness ==
  /\ rpc = "run" /\ SelectCall /\ Selected1 /\ PluralRegistered
  /\ Tag(runtime.select[<<"plural">>].call) = "plural"
  /\ Get(callerScope, <<"n">>) = Num(0)
  /\ Val(Val(message).value).select =
       <<[value |-> Var(<<"n">>), default |-> Undef]>>
  /\ Len(Val(Val(message).value).cases) = 2
  /\ Val(Val(message).value).cases[1].key = <<Str(<<"zero">>)>>
  /\ Val(Val(message).value).cases[2].key = <<Str(<<"other">>)>>
  /\ stack[1].pattern = <<Lit(<<"v", "2">>)>>

\* the format registry has no entry for the function fn names
Unregistered(fn) == Val(fn).func \notin DOMAIN runtime.format

\* the texts between the parentheses: the arguments as resolved, then
\* `key: value` for every option
C18_Items(ctx, fn) ==
  [i \in DOMAIN Val(fn).args |->
     String(FormattedValueOf(C6_Expected(ctx, Val(fn).args[i])))]
  \o (IF Val(fn).options = Undef THEN <<>>
      ELSE [i \in DOMAIN Val(Val(fn).options) |->
              Val(Val(fn).options)[i][1] \o <<":", " ">>
              \o String(Val(Val(fn).options)[i][2])])

RECURSIVE C18_Commas(_)
C18_Commas(items) ==
  IF items = <<>> THEN <<>>
  ELSE IF Len(items) = 1 THEN items[1]
  ELSE items[1] \o <<",", " ">> \o C18_Commas(Tail(items))

C18_Text(ctx, fn) ==
  Val(fn).func \o <<"(">> \o C18_Commas(C18_Items(ctx, fn)) \o <<")">>

\* r is what the part p of the caller's pattern resolved to
C18_PartResolved(p, r) ==
  /\ isFunction(p) =>
       /\ Val(r).type = "fallback"
       /\ Val(r).value = Str(C18_Text(Ctx0, p))
  /\ (isLiteral(p) \/ isVariable(p)) => r = resolvePart(Ctx0, p).v

\* the message is a pattern without metadata
PlainPattern == ~isSelect(Val(message).value) /\ Falsy(Val(message).meta)

\* C18: a function part naming no entry of the format registry resolves
\* without raising to a Fallback with the text `name(arg1, ..., opt: value,
\* ...)`, the other parts of the pattern are resolved as they are on their
\* own, the function is not invoked and the options resolved for it are the
\* empty set.
C18_UnregisteredFallback ==
  (Running /\ PlainPattern /\ runtime.format = <<>>) =>
    /\ rpc # "raised"
    /\ stack # <<>> =>
         \A i \in DOMAIN stack[1].res :
           C18_PartResolved(stack[1].pattern[i], stack[1].res[i])
    /\ rpc = "done" =>
         /\ Len(Val(out)) = Len(Val(Val(message).value))
         /\ \A i \in DOMAIN Val(out) :
              C18_PartResolved(Val(Val(message).value)[i], Val(out)[i])
    /\ \A i \in DOMAIN Val(Val(message).value) :
         isFunction(Val(Val(message).value)[i]) =>
           /\ Unregistered(Val(Val(message).value)[i])
           /\ resolveOptions(Ctx0, Val(Val(Val(message).value)[i]).options,
                             expectedOptions(runtime.format,
                                             Val(Val(Val(message).value)[i]).func))
                = EmptyObj
    /\ calls = <<>>

\* f($n, k: 1) then the literal x, with n = 1 and nothing registered, gave
\* the Fallback f(1, k: 1) and the literal
C18_Witness ==
  /\ rpc = "done" /\ runtime.format = <<>>
  /\ Val(message).value = Pattern(<<FunF, Lit(<<"x">>)>>)
  /\ Get(callerScope, <<"n">>) = Num(1)
  /\ Len(Val(out)) = 2
  /\ Val(Val(out)[1]).type = "fallback"
  /\ Val(Val(out)[1]).value =
       Str(<<"f", "(", "1", ",", " ", "k", ":", " ", "1", ")">>)
  /\ Val(Val(out)[2]).type = "literal"

(***************************************************************************)
(* The calls of formatToParts over patterns of terms (specification        *)
(* SpecTerms).  formatToParts is sequential code: a step that can be taken *)
(* is taken, which is the weak fairness of TNext.                          *)
(***************************************************************************)
TermParts ==
  {Lit(<<"x">>), TermTo(<<"m">>), TermTo(<<"t">>), TermTo(<<"p">>),
   TermTo(<<"s">>), TermG}

TermPatterns == UNION {[1..n -> TermParts] : n \in 1..MaxParts}

TermMessages == {Message(Pattern(pt), Undef) : pt \in TermPatterns}

TInit ==
  /\ message \in TermMessages
  /\ runtime = [format |-> <<>>, select |-> <<>>]
  /\ callerScope \in Scopes
  /\ heap = <<callerScope>>
  /\ stack = <<Frame(1, message, Undef)>>
  /\ calls = <<>>
  /\ visits = <<>>
  /\ out = Undef
  /\ rpc = "run"
  /\ PIdle /\ MIdle /\ OIdle /\ GIdle

\* the steps of formatToParts for a message whose value is a pattern
TNext ==
  \/ EnterPattern
  \/ ResolvePart
  \/ ResolveTermFallback
  \/ ResolveTermCall
  \/ Return
  \/ ReturnToTerm

SpecTerms == TInit /\ [][TNext]_vars /\ WF_vars(TNext)

\* the parts of a message: its pattern, or the patterns of all its variants
RECURSIVE C17_Variants(_)
C17_Variants(cases) ==
  IF cases = <<>> THEN <<>>
  ELSE Head(cases).value \o C17_Variants(Tail(cases))

C17_Parts(m) ==
  IF isSelect(Val(m).value) THEN C17_Variants(Val(Val(m).value).cases)
  ELSE Val(Val(m).value)

\* a term that names its message by one literal of the same resource
C17_Static(part) ==
  /\ Falsy(Val(part).res_id)
  /\ Len(Val(part).msg_path) = 1
  /\ isLiteral(Val(part).msg_path[1])

\* the local messages the terms among parts refer to
C17_Targets(parts) ==
  {nm \in MessageNames :
     \E i \in DOMAIN parts :
       /\ isTerm(parts[i]) /\ C17_Static(parts[i])
       /\ String(Val(Val(parts[i]).msg_path[1]).value) = nm}

\* the names reached from the names S by following term references k times
RECURSIVE C17_Reach(_, _)
C17_Reach(S, k) ==
  IF k = 0 THEN S
  ELSE C17_Reach(S \cup UNION {C17_Targets(C17_Parts(LocalMessage(nm))) :
                                 nm \in S}, k - 1)

C17_From(S) == C17_Reach(S, Cardinality(MessageNames))

\* the messages whose term references lead back to them
C17_CyclicNames ==
  {nm \in MessageNames :
     nm \in C17_From(C17_Targets(C17_Parts(LocalMessage(nm))))}

\* the term references of the caller's message reach a message that leads
\* back to itself
C17_Cyclic ==
  C17_From(C17_Targets(C17_Parts(message))) \cap C17_CyclicNames # {}

\* a message whose references lead back to it is being resolved
C17_CycleEntered ==
  \E j \in DOMAIN stack :
    \E nm \in C17_CyclicNames : stack[j].msg = LocalMessage(nm)

C17_Finished == rpc \in {"done", "raised"}

\* C17: formatToParts ends for a message whose term references form no cycle.
\* Once a message whose references lead back to it is being resolved, its
\* resolution is never left and formatToParts never returns: the nesting of
\* activations grows to any depth, nothing ending it.
C17_EndsUnlessCyclic ==
  /\ ~C17_Cyclic ~> C17_Finished
  /\ [][C17_CycleEntered => (C17_CycleEntered' /\ rpc' = "run")]_vars
  /\ C17_CycleEntered ~> (Len(stack) = MaxDepth)
  /\ [](C17_Cyclic => rpc # "done")

\* the term p of the caller's pattern entered p, q and p again
C17_Witness ==
  /\ Len(stack) = MaxDepth
  /\ stack[2].msg = LocalMessage(<<"p">>)
  /\ stack[3].msg = LocalMessage(<<"q">>)
  /\ stack[4].msg = LocalMessage(<<"p">>)
  /\ Len(stack[3].res) = 1

(***************************************************************************)
(* resolveOptions (format-message.ts 173-208) as the loop of line 184,     *)
(* one entry of Object.entries(options) a step (specification SpecOptions) *)
(***************************************************************************)
MaxOptions == 2

OptionKeys == {<<"k">>, <<"j">>}

\* option values: literals and the variable $v
OptionValues ==
  { Str(<<"true">>), Str(<<"no">>), Str(<<"1">>), Str(<<"x">>), Num(2),
    Var(<<"v">>) }

\* Object.entries(options): the keys of an object are distinct
OptionEntries ==
  {e \in UNION {[1..n -> OptionKeys \X OptionValues] : n \in 0..MaxOptions} :
     \A i, j \in DOMAIN e : i # j => e[i][1] # e[j][1]}

\* the schemas: absent, a type name, an enumerated list, a mapping per option
ExpectedTypes ==
  { Undef, Str(<<>>), Str(<<"any">>), Str(<<"string">>), Str(<<"number">>),
    Str(<<"boolean">>), Str(<<"never">>),
    <<"array", <<Str(<<"x">>), Str(<<"1">>)>> >>,
    Obj(Fields({<<<<"k">>, Str(<<"number">>)>>, <<<<"j">>, Str(<<"never">>)>>})),
    Obj(Fields({<<<<"k">>, <<"array", <<Str(<<"x">>)>> >> >>})) }

OptionScopes ==
  { EmptyObj,
    Obj(Fields({<<<<"v">>, Str(<<"x">>)>>})),
    Obj(Fields({<<<<"v">>, Num(1)>>})),
    Obj(Fields({<<<<"v">>, Bool(TRUE)>>})) }

OptCtx == [scope |-> optScope, rt |-> [format |-> <<>>, select |-> <<>>]]

\* line 178
OInit ==
  /\ optScope \in OptionScopes
  /\ optEntries \in {Undef} \cup {Entries(e) : e \in OptionEntries}
  /\ optExpected \in ExpectedTypes
  /\ optIndex = 0
  /\ optOut = EmptyObj
  /\ opc = "loop"
  /\ PIdle /\ MIdle /\ RIdle /\ GIdle

\* line 183 and the loop condition of line 184
OptionLoopEntered ==
  /\ optEntries # Undef /\ ~Falsy(optExpected)
  /\ optIndex < Len(Val(optEntries))

\* lines 184-206: one entry
OptionStep ==
  /\ opc = "loop" /\ OptionLoopEntered
  /\ optOut' =
       keepOption(optOut, Val(optEntries)[optIndex + 1][1],
                  getExpected(optExpected, Val(optEntries)[optIndex + 1][1]),
                  optionValue(OptCtx,
                              getExpected(optExpected,
                                          Val(optEntries)[optIndex + 1][1]),
                              Val(optEntries)[optIndex + 1][2]))
  /\ optIndex' = optIndex + 1
  /\ UNCHANGED <<optScope, optEntries, optExpected, opc>>
  /\ UNCHANGED <<pvars, mvars, rvars, gvars>>

\* line 207
OptionsReturn ==
  /\ opc = "loop" /\ ~OptionLoopEntered
  /\ opc' = "done"
  /\ UNCHANGED <<optScope, optEntries, optExpected, optIndex, optOut>>
  /\ UNCHANGED <<pvars, mvars, rvars, gvars>>

ONext ==
  \/ OptionStep
  \/ OptionsReturn

SpecOptions == OInit /\ [][ONext]_vars

\* the supplied option names and the supplied value of an option
C12_Names ==
  IF optEntries = Undef THEN {}
  ELSE {Val(optEntries)[i][1] : i \in DOMAIN Val(optEntries)}

C12_Value(key) ==
  (CHOOSE e \in {Val(optEntries)[i] : i \in DOMAIN Val(optEntries)} :
     e[1] = key)[2]

\* the expected type the schema gives the option key, Undef for none
C12_Type(key) ==
  CASE Tag(optExpected) \in {"string", "array"} -> optExpected
    [] Tag(optExpected) = "object" /\ key \in Keys(optExpected) ->
         Val(optExpected)[key]
    [] OTHER -> Undef

\* the resolved value of an option under the expected type ty: the
\* variable's value, or the literal coerced by ty
C12_Resolved(ty, value) ==
  CASE isVariable(value) -> FormattedValueOf(resolveVariable(OptCtx, value).v)
    [] ty = Str(<<"boolean">>) /\ value = Str(<<"true">>) -> Bool(TRUE)
    [] ty = Str(<<"boolean">>) /\ value = Str(<<"false">>) -> Bool(FALSE)
    [] ty = Str(<<"number">>) /\ value = Str(<<"1">>) -> Num(1)
    [] ty = Str(<<"number">>) /\ Tag(value) = "string" /\ value # Str(<<"1">>)
         -> NaN
    [] OTHER -> value

C12_TypeOf(v) ==
  CASE Tag(v) = "string" -> <<"string">>
    [] Tag(v) = "number" -> <<"number">>
    [] Tag(v) = "boolean" -> <<"boolean">>
    [] OTHER -> <<"object">>

C12_Present(key) ==
  LET ty == C12_Type(key)
      v  == C12_Resolved(ty, C12_Value(key))
  IN  /\ ty \notin {Undef, Str(<<>>), Str(<<"never">>)}
      /\ \/ ty = Str(<<"any">>)
         \/ ty = Str(C12_TypeOf(v))
         \/ /\ Tag(ty) = "array" /\ Tag(v) = "string"
            /\ v \in {Val(ty)[i] : i \in DOMAIN Val(ty)}

\* C12: the keys of the result of resolveOptions are supplied option names;
\* an option is in the result, with its resolved value, if and only if the
\* schema gives it an expected type other than never and the resolved value
\* (the variable's value, or the literal coerced by the expected type) has
\* exactly that type, or the type is any, or the type is an enumerated list
\* holding the resulting string; resolveOptions returns without raising.
C12_OptionsKept ==
  /\ opc \in {"loop", "done"} => Keys(optOut) \subseteq C12_Names
  /\ opc = "done" =>
       /\ \A key \in C12_Names :
            /\ key \in Keys(optOut) <=> C12_Present(key)
            /\ key \in Keys(optOut) =>
                 Val(optOut)[key] =
                   C12_Resolved(C12_Type(key), C12_Value(key))
       /\ optOut = resolveOptions(OptCtx, optEntries, optExpected)

\* under the schema {k: number, j: never} the options k = "1", j = "x" gave
\* {k: 1}
C12_Witness ==
  /\ opc = "done"
  /\ optExpected =
       Obj(Fields({<<<<"k">>, Str(<<"number">>)>>,
                   <<<<"j">>, Str(<<"never">>)>>}))
  /\ optEntries = Entries(<< <<<<"k">>, Str(<<"1">>)>>,
                             <<<<"j">>, Str(<<"x">>)>> >>)
  /\ optOut = Obj(Fields({<<<<"k">>, Num(1)>>}))

(***************************************************************************)
(* The Messages accessor (runtime/src/messages.ts), specification          *)
(* SpecMessages.  this._data and this._fallback are plain objects: the     *)
(* sequence of their own entries <<key, value>> in insertion order, and    *)
(* the members every object inherits from Object.prototype.  A locale tag  *)
(* is the sequence of its subtags, `en-US` being <<"en", "US">>; a message *)
(* function is <<"native", n>> with n >= 1.                                *)
(***************************************************************************)
HasOwn(es, k) == \E i \in DOMAIN es : es[i][1] = k

\* the own property k of the object with the entries es
own(es, k) ==
  IF HasOwn(es, k) THEN es[CHOOSE i \in DOMAIN es : es[i][1] = k][2]
  ELSE Undef

\* es[k]: an own property, or else a member of Object.prototype
member(es, k) ==
  IF HasOwn(es, k) THEN own(es, k)
  ELSE IF k \in ProtoKeys THEN <<"native", 0>>
  ELSE Undef

\* es[k] = v
setMember(es, k, v) ==
  IF HasOwn(es, k)
  THEN [i \in DOMAIN es |-> IF es[i][1] = k THEN <<k, v>> ELSE es[i]]
  ELSE Append(es, <<k, v>>)

\* lines 88-90: Object.keys(this._data)
availableLocales(d) == [i \in DOMAIN d |-> d[i][1]]

\* lc.replace(/[-_]?[^-_]*$/, '') at line 171: the last subtag is removed
stripSubtag(lc) == IF lc = <<>> THEN <<>> ELSE SubSeq(lc, 1, Len(lc) - 1)

\* lines 171-173: the first shortened tag that has data, <<>> for none
RECURSIVE parentMatch(_, _)
parentMatch(d, lc) ==
  IF stripSubtag(lc) = <<>> THEN <<>>
  ELSE IF ~Falsy(member(d, stripSubtag(lc))) THEN stripSubtag(lc)
  ELSE parentMatch(d, stripSubtag(lc))

\* line 175: new RegExp('^' + locale + '[-_]').test(l)
prefixTest(tag, l) ==
  Len(l) > Len(tag) /\ SubSeq(l, 1, Len(tag)) = tag

\* lines 174-178: the first available locale the tag is a prefix of, <<>>
\* for none
RECURSIVE childMatch(_, _, _)
childMatch(ll, tag, i) ==
  IF i > Len(ll) THEN <<>>
  ELSE IF prefixTest(tag, ll[i]) THEN ll[i]
  ELSE childMatch(ll, tag, i + 1)

\* lines 167-181
resolveLocale(d, tag) ==
  IF ~Falsy(member(d, String(tag))) THEN tag
  ELSE IF Falsy(tag) THEN Null
  ELSE IF parentMatch(d, Val(tag)) # <<>> THEN Str(parentMatch(d, Val(tag)))
  ELSE IF childMatch(availableLocales(d), Val(tag), 1) # <<>>
  THEN Str(childMatch(availableLocales(d), Val(tag), 1))
  ELSE Null

\* lines 74-79: this._data after the constructor's loop
constructData(msgData) ==
  SelectSeq(msgData, LAMBDA e : e[1] # <<"toString">>)

\* lines 77 and 80: the tag assigned to this.locale
constructLocale(msgData, dflt) ==
  IF dflt = Undef /\ constructData(msgData) # <<>>
  THEN Str(constructData(msgData)[1][1])
  ELSE IF Falsy(dflt) THEN Null ELSE dflt

\* locale || String(this.locale) (lines 141, 188, 257), as a key
localeOr(tag, loc) == IF Falsy(tag) THEN String(loc) ELSE Val(tag)

\* lines 142-147
copyData(x) ==
  IF typeof(x) # "function"
  THEN Obj([k \in Keys(x) \ {<<"toString">>} |-> Val(x)[k]])
  ELSE x

\* lines 150-155: parent after the assignment along keypath from index i
RECURSIVE putPath(_, _, _, _)
putPath(parent, keypath, i, x) ==
  IF i = Len(keypath) THEN Put(parent, keypath[i], x)
  ELSE Put(parent, keypath[i],
           putPath(IF Falsy(Index(parent, Str(keypath[i]))) THEN EmptyObj
                   ELSE Index(parent, Str(keypath[i])),
                   keypath, i + 1, x))

\* lines 148-158: this._data after the assignment, or the TypeError that
\* line 155 raises when this._data[lc] is undefined; a property set on an
\* inherited member is not a property of this._data
addMessagesData(d, lc, keypath, x) ==
  IF keypath # Undef /\ Val(keypath) # <<>>
  THEN IF member(d, lc) = Undef
       THEN TypeError(<<"Cannot set properties of undefined">>)
       ELSE IF Tag(own(d, lc)) = "object"
       THEN <<"data", setMember(d, lc, putPath(own(d, lc), Val(keypath), 1, x))>>
       ELSE <<"data", d>>
  ELSE <<"data", setMember(d, lc, x)>>

\* line 204
setFallback(fb, lc, list) ==
  setMember(fb, lc, IF Tag(list) = "array" THEN list ELSE Null)

\* lines 187-195
getFallback(fb, loc, dflt, tag) ==
  IF ~Falsy(member(fb, localeOr(tag, loc)))
  THEN member(fb, localeOr(tag, loc))
  ELSE IF StrictEq(Str(localeOr(tag, loc)), dflt) \/ Falsy(dflt)
  THEN <<"array", <<>> >>
  ELSE <<"array", <<dflt>> >>

\* lines 277-281: the walk along an array key from index i
RECURSIVE walkKey(_, _, _)
walkKey(res, key, i) ==
  IF i > Len(key) THEN res
  ELSE IF typeof(res) # "object" THEN Null
  ELSE IF Falsy(Index(res, key[i])) THEN Null
  ELSE walkKey(Index(res, key[i]), key, i + 1)

\* _get (lines 270-285)
privateGet(obj, key) ==
  IF Falsy(obj) THEN Null
  ELSE IF Tag(key) = "array" THEN walkKey(obj, Val(key), 1)
  ELSE IF typeof(obj) = "object" THEN Index(obj, key)
  ELSE Null

\* msg(props): what the message function returns
callMessage(msg, props) == <<"result", <<Val(msg), props>> >>

\* lines 259 and 263
messageOr(msg, props) ==
  IF typeof(msg) = "function" THEN callMessage(msg, props) ELSE msg

\* fb.length
lengthOf(fb) == IF Tag(fb) = "array" THEN Len(Val(fb)) ELSE 0

\* lines 261-265: the loop over the fallback locales from index i
RECURSIVE getFrom(_, _, _, _, _)
getFrom(d, fb, i, key, props) ==
  IF i > lengthOf(fb) THEN key
  ELSE IF ~Falsy(privateGet(member(d, Val(Val(fb)[i])), key))
  THEN messageOr(privateGet(member(d, Val(Val(fb)[i])), key), props)
  ELSE getFrom(d, fb, i + 1, key, props)

\* lines 256-266
get(d, fb, loc, dflt, key, props, tag) ==
  IF ~Falsy(privateGet(member(d, localeOr(tag, loc)), key))
  THEN messageOr(privateGet(member(d, localeOr(tag, loc)), key), props)
  ELSE getFrom(d, getFallback(fb, loc, dflt, tag), 1, key, props)

\* ---- the calls explored
TagEn == <<"en">>
TagEnUS == <<"en", "US">>
TagFi == <<"fi">>

DataA == Obj(Fields({<<<<"a">>, <<"native", 1>> >>}))
DataE == Obj(Fields({<<<<"e">>, <<"native", 2>> >>}))
\* a compiled module's locale object, with its toString member
DataAString ==
  Obj(Fields({<<<<"a">>, <<"native", 1>> >>,
              <<<<"toString">>, <<"native", 3>> >>}))

\* new Messages(msgData, defaultLocale)
MsgDatas ==
  { <<>>,
    << <<TagEn, DataA>> >>,
    << <<TagEn, DataA>>, <<TagFi, DataE>> >>,
    << <<TagEnUS, DataA>>, <<TagFi, DataE>> >>,
    << <<<<"toString">>, <<"native", 3>> >>, <<TagFi, DataE>>,
       <<TagEn, DataA>> >> }

DefaultLocales == {Undef, Str(TagEn), Str(TagEnUS), Str(<<"de">>)}

\* the tags assigned to locale and to defaultLocale
LocaleTags ==
  {Null, Str(TagEn), Str(TagEnUS), Str(<<"de">>), Str(<<"toString">>)}
DefaultTags == {Null, Str(TagEn), Str(<<"toString">>)}

\* addMessages(data, locale, keypath)
AddedMessages ==
  { [data |-> DataE, locale |-> Str(TagFi), keypath |-> Undef],
    [data |-> DataAString, locale |-> Undef, keypath |-> Undef],
    [data |-> DataE, locale |-> Str(TagFi),
     keypath |-> <<"array", <<<<"c">>>> >>] }

FallbackLocales == {TagEn}
FallbackLists ==
  {Null, <<"array", <<>> >>, <<"array", <<Str(<<"foo">>), Str(TagFi)>> >>}

GetKeys == {Str(<<"a">>), Str(<<"e">>), <<"array", <<Str(<<"c">>), Str(<<"e">>)>> >>}
GetProps == Obj(Fields({<<<<"n">>, Num(1)>>}))
GetLocales == {Undef, Str(TagFi), Str(<<"toString">>)}

\* lines 73-82
GInit ==
  /\ \E msgData \in MsgDatas, dflt \in DefaultLocales :
       /\ m_data = constructData(msgData)
       /\ m_locale = resolveLocale(constructData(msgData),
                                   constructLocale(msgData, dflt))
       /\ m_defaultLocale = resolveLocale(constructData(msgData),
                                          constructLocale(msgData, dflt))
  /\ m_fallback = <<>>
  /\ gout = Undef
  /\ gpc = "ready"
  /\ PIdle /\ MIdle /\ RIdle /\ OIdle

\* lines 102-104: messages.locale = tag
SetLocale ==
  /\ gpc = "ready"
  /\ \E tag \in LocaleTags :
       /\ m_locale' = resolveLocale(m_data, tag)
       /\ gout' = <<"locale", tag>>
  /\ UNCHANGED <<m_data, m_fallback, m_defaultLocale, gpc>>
  /\ UNCHANGED <<pvars, mvars, rvars, ovars>>

\* lines 116-118: messages.defaultLocale = tag
SetDefaultLocale ==
  /\ gpc = "ready"
  /\ \E tag \in DefaultTags :
       /\ m_defaultLocale' = resolveLocale(m_data, tag)
       /\ gout' = <<"defaultLocale", tag>>
  /\ UNCHANGED <<m_data, m_fallback, m_locale, gpc>>
  /\ UNCHANGED <<pvars, mvars, rvars, ovars>>

\* lines 148-159 given r, the result of addMessagesData
Added(r) ==
  IF Tag(r) = "data"
  THEN m_data' = Val(r) /\ gout' = Undef
  ELSE m_data' = m_data /\ gout' = <<"raised", r>>

\* lines 136-160
AddMessages ==
  /\ gpc = "ready"
  /\ \E x \in AddedMessages :
       Added(addMessagesData(m_data, localeOr(x.locale, m_locale), x.keypath,
                             copyData(x.data)))
  /\ UNCHANGED <<m_fallback, m_defaultLocale, m_locale, gpc>>
  /\ UNCHANGED <<pvars, mvars, rvars, ovars>>

\* lines 203-206
SetFallback ==
  /\ gpc = "ready"
  /\ \E lc \in FallbackLocales, list \in FallbackLists :
       m_fallback' = setFallback(m_fallback, lc, list)
  /\ gout' = Undef
  /\ UNCHANGED <<m_data, m_defaultLocale, m_locale, gpc>>
  /\ UNCHANGED <<pvars, mvars, rvars, ovars>>

\* lines 256-266: messages.get(key, props, tag)
CallGet ==
  /\ gpc = "ready"
  /\ \E key \in GetKeys, tag \in GetLocales :
       gout' = <<"get", [key |-> key, props |-> GetProps, locale |-> tag,
                         result |-> get(m_data, m_fallback, m_locale,
                                        m_defaultLocale, key, GetProps, tag)]>>
  /\ UNCHANGED <<m_data, m_fallback, m_defaultLocale, m_locale, gpc>>
  /\ UNCHANGED <<pvars, mvars, rvars, ovars>>

GNext ==
  \/ SetLocale
  \/ SetDefaultLocale
  \/ AddMessages
  \/ SetFallback
  \/ CallGet

SpecMessages == GInit /\ [][GNext]_vars

(***************************************************************************)
(* Claims about the Messages accessor (checked under SpecMessages)         *)
(***************************************************************************)
C13_Path(key) ==
  IF Tag(key) = "array" THEN [i \in DOMAIN Val(key) |-> Val(Val(key)[i])]
  ELSE <<Val(key)>>

\* the value found under path in the data of a locale, Undef for none
RECURSIVE C13_Lookup(_, _)
C13_Lookup(obj, path) ==
  IF path = <<>> THEN obj
  ELSE IF Tag(obj) # "object" THEN Undef
  ELSE IF Head(path) \notin Keys(obj) THEN Undef
  ELSE C13_Lookup(Val(obj)[Head(path)], Tail(path))

\* the fallback locales of lc: the list last set for it, or else the default
\* locale unless lc is the default locale or there is none
C13_Fallback(lc) ==
  IF HasOwn(m_fallback, lc) /\ Tag(own(m_fallback, lc)) = "array"
  THEN [i \in DOMAIN Val(own(m_fallback, lc)) |->
          Val(Val(own(m_fallback, lc))[i])]
  ELSE IF m_defaultLocale = Null \/ m_defaultLocale = Str(lc) THEN <<>>
  ELSE <<Val(m_defaultLocale)>>

\* the first hit for key in lc and then its fallback locales, in list order,
\* called with props when it is a function; key when no locale has it
C13_Expected(key, props, lc) ==
  LET order == <<lc>> \o C13_Fallback(lc)
      hits  == {i \in DOMAIN order :
                  C13_Lookup(own(m_data, order[i]), C13_Path(key)) # Undef}
      hit   == C13_Lookup(own(m_data, order[CHOOSE i \in hits :
                                              \A j \in hits : i <= j]),
                          C13_Path(key))
  IN  IF hits = {} THEN key
      ELSE IF Tag(hit) = "native" THEN <<"result", <<Val(hit), props>> >>
      ELSE hit

\* C13: get(key, props, lc) returns the first hit for key in locale lc (the
\* current locale by default) and then in the locales of getFallback(lc) in
\* list order, called with props when it is a function, and key when no
\* locale has it; getFallback(lc) is the list last set by setFallback, and
\* otherwise [defaultLocale] unless lc is the default locale or there is no
\* default locale; locales without data are skipped.
C13_GetFirstHit ==
  (gpc = "ready" /\ Tag(gout) = "get") =>
    /\ Val(gout).result =
         C13_Expected(Val(gout).key, Val(gout).props,
                      localeOr(Val(gout).locale, m_locale))
    /\ getFallback(m_fallback, m_locale, m_defaultLocale, Val(gout).locale) =
         <<"array",
           [i \in DOMAIN C13_Fallback(localeOr(Val(gout).locale, m_locale)) |->
              Str(C13_Fallback(localeOr(Val(gout).locale, m_locale))[i])]>>

C14_Available == {m_data[i][1] : i \in DOMAIN m_data}

C14_Prefix(a, b) == Len(a) < Len(b) /\ SubSeq(b, 1, Len(a)) = a

\* the tag has an exact or a partial match among the available locales
C14_Matches(tag) ==
  \E l \in C14_Available : l = tag \/ C14_Prefix(l, tag) \/ C14_Prefix(tag, l)

C14_NullOrAvailable(v) ==
  v = Null \/ (Tag(v) = "string" /\ Val(v) \in C14_Available)

\* C14: locale and defaultLocale are each null or one of availableLocales,
\* and assigning a tag without an exact or partial match among the available
\* locales sets the property to null.
C14_LocalesAvailable ==
  gpc = "ready" =>
    /\ C14_NullOrAvailable(m_locale)
    /\ C14_NullOrAvailable(m_defaultLocale)
    /\ (Tag(gout) = "locale" /\ Val(gout) # Null
          /\ ~C14_Matches(Val(Val(gout)))) => m_locale = Null
    /\ (Tag(gout) = "defaultLocale" /\ Val(gout) # Null
          /\ ~C14_Matches(Val(Val(gout)))) => m_defaultLocale = Null

====
